---- MODULE Spec2Model ----
(***************************************************************************)
(* Model of the audio fingerprint store and matcher of backend/server.js:  *)
(* the AudioFingerprint class (database Map, storeAudio, matchAudio,       *)
(* compareFingerprints, compareFingerprintsAligned, deleteAudio,           *)
(* saveDatabase) and the HTTP handlers that drive it.                      *)
(*                                                                         *)
(* Numbers.  The code computes in IEEE doubles.  Here feature values are   *)
(* integers (thousandths for the scalar features, Hz for the two peak      *)
(* frequencies), Math.exp is evaluated in fixed point with resolution      *)
(* 1/SCALE, and a score is kept as the exact fraction                      *)
(*        n / (d * ScoreUnit)                                              *)
(* so that the mean over the frames, the 0.5 penalty and the 0.85 penalty  *)
(* are computed without rounding.                                          *)
(***************************************************************************)
EXTENDS Integers, Sequences, FiniteSets, TLC

VARIABLES database, file, clock, fails, resp, cmpA, cmpB, cmpOut, cmpPc,
          pending, written, graves, audioData, conditioned, soundTypes,
          emergencyContact, errors, step, event, extracted, spectrum,
          disk, calls, playingId, soundRef, sounds, taps

vars ==
  <<database, file, clock, fails, resp, cmpA, cmpB, cmpOut, cmpPc,
    pending, written, graves, audioData, conditioned, soundTypes,
    emergencyContact, errors, step, event, extracted, spectrum,
    disk, calls, playingId, soundRef, sounds, taps>>
storeVars == <<database, file, clock, fails, resp>>
cmpVars == <<cmpA, cmpB, cmpOut, cmpPc>>
reqVars == <<pending, written, graves>>
dspVars == <<audioData, conditioned, extracted, spectrum>>
appVars == <<soundTypes, emergencyContact, errors, step, event>>
wavVars == <<disk, calls>>
playVars == <<playingId, soundRef, sounds, taps>>

\* ------------------------------------------------------------------------
\* Bounds of the model
\* ------------------------------------------------------------------------
\* largest value of the wall clock read by new Date()
MaxTime == 1
\* number of writeFileSync failures the environment may inject
MaxFail == 1
\* number of frames of the longest clip of the pure comparison runs
MaxLen == 20
\* requests of one run of interleaved requests
MaxReq == 2

\* ------------------------------------------------------------------------
\* Program constants
\* ------------------------------------------------------------------------
\* MATCHING_CONFIG.DEFAULT_THRESHOLD = 0.85, in hundredths
DEFAULT_THRESHOLD == 85
\* MATCHING_CONFIG.MIN_NOTIFICATION_CONFIDENCE = 0.80, in hundredths
MIN_NOTIFICATION_CONFIDENCE == 80
\* MATCHING_CONFIG.MIN_CONSISTENT_FRAMES = 0.6, in tenths
MIN_CONSISTENT_FRAMES == 6
\* MATCHING_CONFIG.REQUIRE_TEMPORAL_CONSISTENCY
REQUIRE_TEMPORAL_CONSISTENCY == TRUE
\* "if (minLen < 10) return 0"
MinFrames == 10
\* "s > 0.7" of the good-frame filter, in hundredths
GoodFrame == 70
\* "lengthRatio < 0.7", in tenths
LengthRatioFloor == 7
\* resolution of a feature similarity: Math.exp(..) * SCALE
SCALE == 1000
\* Math.exp(-x) is tabulated for x = k/8, k in 0..ExpMaxK (x up to 12)
ExpMaxK == 96
\* a score n/d is the real number n / (d * ScoreUnit):
\* 100 (weights in hundredths) * SCALE * 2 (halving) * 20 (0.85 = 17/20)
ScoreUnit == 100 * SCALE * 2 * 20

Null == "null"

\* no audio is being conditioned
NoSignal ==
  /\ audioData = [channelData |-> <<>>, sampleRate |-> 0]
  /\ conditioned = [ran |-> FALSE, samples |-> <<>>]
  /\ extracted = [ran |-> FALSE, frames |-> <<>>]
  /\ spectrum = <<>>

\* defaultOnboardingData.soundTypes
defaultSoundTypes ==
  [smokeAlarm |-> TRUE, glassBreaking |-> TRUE, doorbell |-> TRUE,
   babyCrying |-> TRUE]

\* the onboarding wizard is not on screen
NoWizard ==
  /\ soundTypes = defaultSoundTypes
  /\ emergencyContact = [name |-> "", phone |-> <<>>]
  /\ errors = [name |-> "", phone |-> ""]
  /\ step = 0
  /\ event = [op |-> "none", key |-> ""]

\* no generateFingerprint call is under way and no file is looked at
NoCalls ==
  /\ disk = <<>>
  /\ calls = <<>>

\* useRef<Audio.Sound | null>(null)
NoSound == [n |-> 0, id |-> Null]

\* the Saved Sounds screen is not mounted
NoPlayer ==
  /\ playingId = Null
  /\ soundRef = NoSound
  /\ sounds = {}
  /\ taps = <<>>

Abs(x) == IF x < 0 THEN -x ELSE x
Min2(a, b) == IF a < b THEN a ELSE b
Max2(a, b) == IF a > b THEN a ELSE b
Max3(a, b, c) == Max2(Max2(a, b), c)

\* ------------------------------------------------------------------------
\* Feature vectors and the weight table
\* ------------------------------------------------------------------------
Features ==
  <<"energy", "zcr", "spectralCentroid", "spectralFlux", "spectralRolloff",
    "spectralFlatness", "spectralContrast", "subBass", "bass", "lowMid",
    "mid", "highMid", "upperMid", "presence", "brilliance", "peakFreq1",
    "peakFreq2">>

\* the weight table with peakFreq2: 0 for peakFreq2: 0.01
weightsLight ==
  [energy |-> 1, zcr |-> 3, spectralCentroid |-> 12, spectralFlux |-> 10,
   spectralRolloff |-> 10, spectralFlatness |-> 8, spectralContrast |-> 8,
   subBass |-> 6, bass |-> 8, lowMid |-> 7, mid |-> 8, highMid |-> 6,
   upperMid |-> 5, presence |-> 4, brilliance |-> 2, peakFreq1 |-> 1,
   peakFreq2 |-> 0]

\* the weight table with energy: 0.1 for energy: 0.01
weightsTypo ==
  [energy |-> 10, zcr |-> 3, spectralCentroid |-> 12, spectralFlux |-> 10,
   spectralRolloff |-> 10, spectralFlatness |-> 8, spectralContrast |-> 8,
   subBass |-> 6, bass |-> 8, lowMid |-> 7, mid |-> 8, highMid |-> 6,
   upperMid |-> 5, presence |-> 4, brilliance |-> 2, peakFreq1 |-> 1,
   peakFreq2 |-> 1]

\* const weights = {...}, in hundredths
weights ==
  [energy |-> 1, zcr |-> 3, spectralCentroid |-> 12, spectralFlux |-> 10,
   spectralRolloff |-> 10, spectralFlatness |-> 8, spectralContrast |-> 8,
   subBass |-> 6, bass |-> 8, lowMid |-> 7, mid |-> 8, highMid |-> 6,
   upperMid |-> 5, presence |-> 4, brilliance |-> 2, peakFreq1 |-> 1,
   peakFreq2 |-> 1]

\* feature.startsWith('peakFreq')
IsPeakFreq(feature) == feature \in {"peakFreq1", "peakFreq2"}

\* Math.exp(-k/8) * SCALE for k = 0..(ExpMaxK + 1), rounded to nearest
ExpValues ==
  <<
    1000, 882, 779, 687, 607, 535, 472, 417, 368, 325,
    287, 253, 223, 197, 174, 153, 135, 119, 105, 93,
    82, 72, 64, 56, 50, 44, 39, 34, 30, 27,
    24, 21, 18, 16, 14, 13, 11, 10, 9, 8,
    7, 6, 5, 5, 4, 4, 3, 3, 2, 2,
    2, 2, 2, 1, 1, 1, 1, 1, 1, 1,
    1, 0, 0, 0, 0, 0, 0, 0, 0, 0,
    0, 0, 0, 0, 0, 0, 0, 0, 0, 0,
    0, 0, 0, 0, 0, 0, 0, 0, 0, 0,
    0, 0, 0, 0, 0, 0, 0, 0
  >>

ExpTab(k) == ExpValues[k + 1]

\* Math.exp(-(num/den)) * SCALE for num >= 0, den > 0: linear interpolation
\* between the tabulated points, underflowing to 0 beyond the table
ExpNeg(num, den) ==
  LET k == (8 * num) \div den
      r == (8 * num) % den
  IN IF k > ExpMaxK THEN 0
     ELSE ExpTab(k) - (((ExpTab(k) - ExpTab(k + 1)) * r) \div den)

\* one pass of the inner loop of compareFingerprintsAligned: the similarity
\* of one feature of two frames, times SCALE.  The floor of the denominator
\* is 1 Hz for a peak frequency and 0.001 (one thousandth) otherwise.
FeatureSimilarity(feature, v1, v2) ==
  IF IsPeakFreq(feature)
  THEN LET maxFreq == Max3(v1, v2, 1)
           freqDiff == Abs(v1 - v2)
       IN ExpNeg(10 * freqDiff, maxFreq)
  ELSE LET maxVal == Max3(Abs(v1), Abs(v2), 1)
       IN ExpNeg(2 * Abs(v1 - v2), maxVal)

RECURSIVE WeightedSum(_, _, _)
WeightedSum(f1, f2, k) ==
  IF k = 0 THEN 0
  ELSE WeightedSum(f1, f2, k - 1)
       + FeatureSimilarity(Features[k], f1[Features[k]], f2[Features[k]])
         * weights[Features[k]]

\* frameSimilarity of two frames, times 100 * SCALE
FrameSimilarity(f1, f2) == WeightedSum(f1, f2, Len(Features))

RECURSIVE SumSeq(_, _)
SumSeq(s, k) == IF k = 0 THEN 0 ELSE SumSeq(s, k - 1) + s[k]

\* a score as a fraction: the real number n / (d * unit)
Frac(n, d) == [n |-> n, d |-> d]
Zero == Frac(0, 1)
FracGt(a, b) == a.n * b.d > b.n * a.d
FracGe(a, b) == a.n * b.d >= b.n * a.d
FracEq(a, b) == a.n * b.d = b.n * a.d

\* compareFingerprintsAligned without the temporal-consistency penalty
compareFingerprintsAlignedLenient(fp1, fp2) ==
  LET len == Min2(Len(fp1), Len(fp2))
      frameSimilarities == [i \in 1..len |-> FrameSimilarity(fp1[i], fp2[i])]
  IN Frac(2 * SumSeq(frameSimilarities, len), len)

\* compareFingerprintsAligned(fp1, fp2); the result is in units of
\* 1 / (100 * SCALE * 2)
compareFingerprintsAligned(fp1, fp2) ==
  LET len == Min2(Len(fp1), Len(fp2))
      frameSimilarities == [i \in 1..len |-> FrameSimilarity(fp1[i], fp2[i])]
      total == SumSeq(frameSimilarities, len)
      goodFrames ==
        Cardinality({i \in 1..len : frameSimilarities[i] > GoodFrame * SCALE})
  IN IF REQUIRE_TEMPORAL_CONSISTENCY
        /\ 10 * goodFrames < MIN_CONSISTENT_FRAMES * len
     THEN Frac(total, len)
     ELSE Frac(2 * total, len)

\* compareFingerprints without the length penalty
compareFingerprintsUnpenalised(fp1, fp2) ==
  LET minLen == Min2(Len(fp1), Len(fp2))
      score == compareFingerprintsAligned(fp1, fp2)
  IN IF minLen < MinFrames THEN Zero
     ELSE Frac(score.n * 20, score.d)

\* compareFingerprints without the minimum-overlap gate
compareFingerprintsUngated(fp1, fp2) ==
  LET minLen == Min2(Len(fp1), Len(fp2))
      maxLen == Max2(Len(fp1), Len(fp2))
      score == compareFingerprintsAligned(fp1, fp2)
      lengthPenalty == IF 10 * minLen < LengthRatioFloor * maxLen
                       THEN 17 ELSE 20
  IN IF minLen = 0 THEN Zero
     ELSE Frac(score.n * lengthPenalty, score.d)

\* compareFingerprints with the length penalty applied to every pair
compareFingerprintsPenalised(fp1, fp2) ==
  LET minLen == Min2(Len(fp1), Len(fp2))
      score == compareFingerprintsAligned(fp1, fp2)
  IN IF minLen < MinFrames THEN Zero
     ELSE Frac(score.n * 17, score.d)

\* compareFingerprints(fp1, fp2); the result is in units of 1 / ScoreUnit
compareFingerprints(fp1, fp2) ==
  LET minLen == Min2(Len(fp1), Len(fp2))
      maxLen == Max2(Len(fp1), Len(fp2))
      score == compareFingerprintsAligned(fp1, fp2)
      lengthPenalty == IF 10 * minLen < LengthRatioFloor * maxLen
                       THEN 17 ELSE 20
  IN IF minLen < MinFrames THEN Zero
     ELSE Frac(score.n * lengthPenalty, score.d)

\* score >= t, for a threshold t given in hundredths
ScoreAtLeast(score, t) == score.n >= t * score.d * (ScoreUnit \div 100)

\* ------------------------------------------------------------------------
\* Inputs: the fingerprints that generateFingerprint yields for the audio
\* files handed to the server
\* ------------------------------------------------------------------------
\* a feature vector as built by extractFeatures: v for the time-domain and
\* spectral-shape features, w for the band energies, pk for the peaks
FrameOf(v, w, pk) ==
  [energy |-> v, zcr |-> v \div 4, spectralCentroid |-> 5 * v,
   spectralFlux |-> v \div 2, spectralRolloff |-> 8 * v,
   spectralFlatness |-> v, spectralContrast |-> 3 * v,
   subBass |-> w, bass |-> 2 * w, lowMid |-> 3 * w, mid |-> 2 * w,
   highMid |-> w, upperMid |-> w \div 2, presence |-> w \div 4,
   brilliance |-> w \div 8, peakFreq1 |-> pk, peakFreq2 |-> 3 * pk]

FrameP == FrameOf(400, 200, 1000)
FrameR == FrameOf(480, 230, 1030)
FrameQ == FrameOf(10, 900, 4000)
FrameZ == FrameOf(0, 0, 0)

\* n frames f: a steady sound
Rep(f, n) == [i \in 1..n |-> f]
\* the first half of the frames f, the rest g
Mixed(f, g, n) == [i \in 1..n |-> IF 2 * i <= n THEN f ELSE g]

\* clips of the matching runs; <<>> is the fingerprint of a file shorter
\* than one analysis window
Clips == {<<>>, Rep(FrameP, MinFrames), Rep(FrameR, MinFrames)}

\* clips of the runs of the server from its start: a file of one analysis
\* window
StoreClips == {Rep(FrameP, 1)}

\* clips of the pure comparison runs
CmpLens ==
  {0, MinFrames \div 2, MinFrames - 1, MinFrames,
   (LengthRatioFloor * MaxLen) \div 10, MaxLen - 1, MaxLen}
CmpClips ==
  {Rep(f, n) : f \in {FrameP, FrameR, FrameQ, FrameZ}, n \in CmpLens}
  \cup {Mixed(FrameP, FrameQ, n) : n \in CmpLens}
  \cup {Mixed(FrameR, FrameP, n) : n \in CmpLens}

Ids == {"a", "b"}

\* what is remembered of the last successful delete of an id: the store
\* requests for the id that were in flight when it answered (inFlight),
\* whether no store request that arrived after it has written the id yet
\* (untilLater), and whether no store request at all has written the id
\* since (untilAny)
NoGrave == [inFlight |-> {}, untilLater |-> FALSE, untilAny |-> FALSE]
NoGraves == [audioId \in Ids |-> NoGrave]
Users == {"u1", "u2"}
\* what the request says about the audio file: no path given, a path that
\* does not exist, a file that ffmpeg or the decoder rejects, a good file
Paths == {"none", "nofile", "corrupt", "ok"}
\* the threshold of a match request, in hundredths; <<>> when absent
Thresholds == {<<>>, <<0>>, <<50>>}

\* ------------------------------------------------------------------------
\* this.database: a Map keeps its keys in insertion order, so it is a
\* sequence of entries with distinct audioId
\* ------------------------------------------------------------------------
Entry(audioId, fingerprint, userId, timestamp) ==
  [audioId |-> audioId, fingerprint |-> fingerprint, userId |-> userId,
   timestamp |-> timestamp]

\* Map.prototype.has
MapHas(db, audioId) == \E i \in 1..Len(db) : db[i].audioId = audioId

\* an update of the stored record in place: only the fingerprint is new
MapSetTorn(db, e) ==
  IF MapHas(db, e.audioId)
  THEN [i \in 1..Len(db) |->
          IF db[i].audioId = e.audioId
          THEN [db[i] EXCEPT !.fingerprint = e.fingerprint] ELSE db[i]]
  ELSE Append(db, e)

\* an array push in place of Map.prototype.set
MapSetAppend(db, e) == Append(db, e)

\* Map.prototype.set: a present key keeps its place and gets the new value,
\* a new key goes to the end
MapSet(db, e) ==
  IF MapHas(db, e.audioId)
  THEN [i \in 1..Len(db) |-> IF db[i].audioId = e.audioId THEN e ELSE db[i]]
  ELSE Append(db, e)

\* Map.prototype.delete
MapDelete(db, audioId) == SelectSeq(db, LAMBDA e : e.audioId # audioId)

\* storeAudio, after generateFingerprint has returned fingerprint
storeAudio(db, fingerprint, audioId, userId, now) ==
  MapSet(db, Entry(audioId, fingerprint, userId, now))

\* the first key of the Map is deleted in place of audioId
deleteAudioFirst(db, audioId) == IF db = <<>> THEN db ELSE Tail(db)

\* this.database.clear() in place of this.database.delete(audioId)
deleteAudioClear(db, audioId) == <<>>

\* deleteAudio
deleteAudio(db, audioId) == MapDelete(db, audioId)

\* the content of fingerprints.json:
\* JSON.stringify(Array.from(this.database.entries())), an array of
\* [key, value] pairs
NoFile == [exists |-> FALSE, entries |-> <<>>]

\* JSON.stringify(this.database) in place of the array of the entries: a
\* Map has no enumerable properties and is written as {}
saveDatabaseMapItself(db) == [exists |-> TRUE, entries |-> <<>>]

saveDatabase(db) ==
  [exists |-> TRUE,
   entries |-> [i \in 1..Len(db) |->
                  <<db[i].audioId,
                    [fingerprint |-> db[i].fingerprint,
                     userId |-> db[i].userId,
                     timestamp |-> db[i].timestamp]>>]]

\* new Map(pairs): the pairs are set in order
RECURSIVE MapFrom(_, _)
MapFrom(pairs, k) ==
  IF k = 0 THEN <<>>
  ELSE MapSet(MapFrom(pairs, k - 1),
              Entry(pairs[k][1], pairs[k][2].fingerprint,
                    pairs[k][2].userId, pairs[k][2].timestamp))

\* loadDatabase: this.database = new Map(JSON.parse(data)) when the file
\* exists; otherwise the database stays as it is
loadDatabase(db, f) ==
  IF f.exists THEN MapFrom(f.entries, Len(f.entries)) ELSE db

\* ------------------------------------------------------------------------
\* matchAudio
\* ------------------------------------------------------------------------
\* the loop with === for !== in its skip test
CandidatesInverted(db, userId) ==
  SelectSeq(db, LAMBDA e : ~(userId # Null /\ e.userId = userId))

\* the entries the loop does not skip
Candidates(db, userId) ==
  SelectSeq(db, LAMBDA e : ~(userId # Null /\ e.userId # userId))

AllClips == Clips \cup StoreClips \cup CmpClips

\* the scores of all pairs of input clips, computed once
ScoreMemo ==
  [fp1 \in AllClips |->
     [fp2 \in AllClips |-> compareFingerprints(fp1, fp2)] @@ <<>>] @@ <<>>

\* this.compareFingerprints(unknownFingerprint, storedFingerprint)
Score(fp1, fp2) == ScoreMemo[fp1][fp2]

\* scores weighted by the age of the entry: an entry stored after the
\* server's first second counts half
ScoreListAged(db, unknown, userId) ==
  LET c == Candidates(db, userId)
  IN [i \in 1..Len(c) |->
        [audioId |-> c[i].audioId,
         score |-> IF c[i].timestamp = 0
                   THEN Score(unknown, c[i].fingerprint)
                   ELSE Frac(Score(unknown, c[i].fingerprint).n,
                             2 * Score(unknown, c[i].fingerprint).d),
         userId |-> c[i].userId]]

\* allScores before the sort, in iteration order
ScoreList(db, unknown, userId) ==
  LET c == Candidates(db, userId)
  IN [i \in 1..Len(c) |->
        [audioId |-> c[i].audioId,
         score |-> Score(unknown, c[i].fingerprint),
         userId |-> c[i].userId]]

\* the loop with bestScore starting at -1
RECURSIVE BestOfNegInit(_, _)
BestOfNegInit(scores, k) ==
  IF k = 0 THEN [match |-> Null, score |-> Frac(-1, 1)]
  ELSE LET prev == BestOfNegInit(scores, k - 1)
       IN IF FracGt(scores[k].score, prev.score)
          THEN [match |-> scores[k].audioId, score |-> scores[k].score]
          ELSE prev

\* bestMatch and bestScore after the first k candidates
RECURSIVE BestOf(_, _)
BestOf(scores, k) ==
  IF k = 0 THEN [match |-> Null, score |-> Zero]
  ELSE LET prev == BestOf(scores, k - 1)
       IN IF FracGt(scores[k].score, prev.score)
          THEN [match |-> scores[k].audioId, score |-> scores[k].score]
          ELSE prev

\* the comparator a.score - b.score: ascending
InsertAsc(sorted, x) ==
  LET before == {j \in 1..Len(sorted) : FracGe(x.score, sorted[j].score)}
      k == Cardinality(before)
  IN SubSeq(sorted, 1, k) \o <<x>> \o SubSeq(sorted, k + 1, Len(sorted))

\* an unstable sort step: x goes in front of its equals
InsertDescFront(sorted, x) ==
  LET before == {j \in 1..Len(sorted) : FracGt(sorted[j].score, x.score)}
      k == Cardinality(before)
  IN SubSeq(sorted, 1, k) \o <<x>> \o SubSeq(sorted, k + 1, Len(sorted))

\* put x into a list sorted by descending score, behind its equals
InsertDesc(sorted, x) ==
  LET before == {j \in 1..Len(sorted) : FracGe(sorted[j].score, x.score)}
      k == Cardinality(before)
  IN SubSeq(sorted, 1, k) \o <<x>> \o SubSeq(sorted, k + 1, Len(sorted))

\* allScores.sort((a, b) => b.score - a.score): a stable sort
RECURSIVE SortDesc(_, _)
SortDesc(scores, k) ==
  IF k = 0 THEN <<>> ELSE InsertDesc(SortDesc(scores, k - 1), scores[k])

matchAudio(db, unknown, threshold, userId) ==
  LET scores == ScoreList(db, unknown, userId)
      best == BestOf(scores, Len(scores))
      allScores == SortDesc(scores, Len(scores))
  IN IF ScoreAtLeast(best.score, threshold)
     THEN [match |-> best.match, confidence |-> best.score,
           allScores |-> allScores]
     ELSE [match |-> Null, confidence |-> best.score,
           allScores |-> allScores]

\* ------------------------------------------------------------------------
\* The HTTP handlers.  A handler touches the database only in the last
\* stretch of its promise chain (database.set, saveDatabase and the response
\* follow each other without yielding to another request), so one action is
\* one request.  resp is the response to the last request, with the request
\* it answers.
\* ------------------------------------------------------------------------
NoResp ==
  [op |-> "none", status |-> 0, req |-> <<>>, deleted |-> FALSE,
   match |-> Null, confidence |-> Zero, allScores |-> <<>>,
   notify |-> FALSE, fingerprints |-> <<>>]

\* the response with its status, and the request it answers
Reply(op, status, req) ==
  [NoResp EXCEPT !.op = op, !.status = status, !.req = req]

\* the tail shared by POST /api/audio/fingerprint and POST /api/audio/upload:
\*   await fingerprinter.storeAudio(path, audioId, userId);
\*   fingerprinter.saveDatabase(DB_PATH);
\*   res.json({success: true, ...})
\* sent before the file is written: a write that throws can no longer
\* change the 200 that went out
StoreAndSaveReplyFirst(op, path, fp, audioId, userId, saveOk) ==
  LET req == <<path, fp, audioId, userId>>
  IN IF path = "corrupt"
     THEN /\ resp' = Reply(op, 500, req)
          /\ UNCHANGED <<database, file, fails>>
     ELSE /\ database' = storeAudio(database, fp, audioId, userId, clock)
          /\ resp' = Reply(op, 200, req)
          /\ IF saveOk
             THEN /\ file' = saveDatabase(database')
                  /\ UNCHANGED fails
             ELSE /\ fails < MaxFail
                  /\ fails' = fails + 1
                  /\ UNCHANGED file

\* the tail shared by POST /api/audio/fingerprint and POST /api/audio/upload:
\*   await fingerprinter.storeAudio(path, audioId, userId);
\*   fingerprinter.saveDatabase(DB_PATH);
\*   res.json({success: true, ...})
\* with the catch block answering 500.  fs.writeFileSync either writes the
\* file or throws and leaves the old content.
StoreAndSave(op, path, fp, audioId, userId, saveOk) ==
  LET req == <<path, fp, audioId, userId>>
  IN IF path = "corrupt"
     THEN \* generateFingerprint throws
          /\ resp' = Reply(op, 500, req)
          /\ UNCHANGED <<database, file, fails>>
     ELSE /\ database' = storeAudio(database, fp, audioId, userId, clock)
          /\ IF saveOk
             THEN /\ file' = saveDatabase(database')
                  /\ resp' = Reply(op, 200, req)
                  /\ UNCHANGED fails
             ELSE \* writeFileSync throws
                  /\ fails < MaxFail
                  /\ fails' = fails + 1
                  /\ resp' = Reply(op, 500, req)
                  /\ UNCHANGED file

\* app.post('/api/audio/fingerprint')
PostFingerprint(path, fp, audioId, userId, saveOk) ==
  LET req == <<path, fp, audioId, userId>>
  IN /\ IF path = "none" \/ audioId = Null \/ userId = Null
        THEN /\ resp' = Reply("register", 400, req)
             /\ UNCHANGED <<database, file, fails>>
        ELSE IF path = "nofile"
        THEN /\ resp' = Reply("register", 404, req)
             /\ UNCHANGED <<database, file, fails>>
        ELSE StoreAndSave("register", path, fp, audioId, userId, saveOk)
     /\ UNCHANGED <<clock, cmpVars, dspVars, appVars, wavVars, playVars, reqVars>>

\* app.post('/api/audio/upload'): multer has put the upload on disk, so a
\* path that names no file does not occur; "none" is a request without file
PostUpload(path, fp, audioId, userId, saveOk) ==
  LET req == <<path, fp, audioId, userId>>
  IN /\ path # "nofile"
     /\ IF path = "none" \/ audioId = Null \/ userId = Null
        THEN /\ resp' = Reply("upload", 400, req)
             /\ UNCHANGED <<database, file, fails>>
        ELSE StoreAndSave("upload", path, fp, audioId, userId, saveOk)
     /\ UNCHANGED <<clock, cmpVars, dspVars, appVars, wavVars, playVars, reqVars>>

\* app.delete('/api/audio/fingerprint/:id')
DeleteRoute(audioId, saveOk) ==
  LET deleted == MapHas(database, audioId)
      req == <<audioId>>
  IN /\ IF deleted
        THEN /\ database' = deleteAudio(database, audioId)
             /\ IF saveOk
                THEN /\ file' = saveDatabase(database')
                     /\ resp' = [Reply("delete", 200, req)
                                   EXCEPT !.deleted = TRUE]
                     /\ UNCHANGED fails
                ELSE /\ fails < MaxFail
                     /\ fails' = fails + 1
                     /\ resp' = [Reply("delete", 500, req)
                                   EXCEPT !.deleted = TRUE]
                     /\ UNCHANGED file
        ELSE /\ resp' = Reply("delete", 404, req)
             /\ UNCHANGED <<database, file, fails>>
     /\ UNCHANGED <<clock, cmpVars, dspVars, appVars, wavVars, playVars>>

DeleteFingerprint(audioId, saveOk) ==
  DeleteRoute(audioId, saveOk) /\ UNCHANGED reqVars

\* threshold || MATCHING_CONFIG.DEFAULT_THRESHOLD
ThresholdOrDefault(threshold) ==
  IF threshold = <<>> \/ threshold[1] = 0
  THEN DEFAULT_THRESHOLD ELSE threshold[1]

\* (matchOwnOnly && userId) ? userId : null
FilterUserId(matchOwnOnly, userId) ==
  IF matchOwnOnly /\ userId # Null THEN userId ELSE Null

\* result.match && userId: the gate of the route before the floor was added
ShouldNotifyAnyMatch(result, userId) ==
  /\ result.match # Null
  /\ userId # Null

\* result.match && userId && result.confidence >= MIN_NOTIFICATION_CONFIDENCE
ShouldNotify(result, userId) ==
  /\ result.match # Null
  /\ userId # Null
  /\ ScoreAtLeast(result.confidence, MIN_NOTIFICATION_CONFIDENCE)

\* the response of POST /api/audio/match to a request whose file decodes
MatchReply(req, result, userId) ==
  [Reply("match", 200, req) EXCEPT
     !.match = result.match,
     !.confidence = result.confidence,
     !.allScores = result.allScores,
     !.notify = ShouldNotify(result, userId)]

\* app.post('/api/audio/match') with a saveDatabase copied over from the
\* store handlers
PostMatchSaving(path, fp, threshold, userId, matchOwnOnly) ==
  LET req == <<path, fp, threshold, userId, matchOwnOnly>>
      result == matchAudio(database, fp, ThresholdOrDefault(threshold),
                           FilterUserId(matchOwnOnly, userId))
  IN /\ IF path = "none"
        THEN resp' = Reply("match", 400, req) /\ UNCHANGED file
        ELSE IF path = "nofile"
        THEN resp' = Reply("match", 404, req) /\ UNCHANGED file
        ELSE IF path = "corrupt"
        THEN resp' = Reply("match", 500, req) /\ UNCHANGED file
        ELSE /\ resp' = MatchReply(req, result, userId)
             /\ file' = saveDatabase(database)
     /\ UNCHANGED <<database, fails, clock, cmpVars, dspVars, appVars, wavVars, playVars, reqVars>>

\* app.post('/api/audio/match')
PostMatch(path, fp, threshold, userId, matchOwnOnly) ==
  LET req == <<path, fp, threshold, userId, matchOwnOnly>>
      result == matchAudio(database, fp, ThresholdOrDefault(threshold),
                           FilterUserId(matchOwnOnly, userId))
  IN /\ IF path = "none"
        THEN resp' = Reply("match", 400, req)
        ELSE IF path = "nofile"
        THEN resp' = Reply("match", 404, req)
        ELSE IF path = "corrupt"
        THEN resp' = Reply("match", 500, req)
        ELSE resp' = MatchReply(req, result, userId)
     /\ UNCHANGED <<database, file, fails, clock, cmpVars, dspVars, appVars, wavVars, playVars, reqVars>>

\* getAllFingerprints without its skip test
getAllFingerprintsUnfiltered(db, userId) ==
  [i \in 1..Len(db) |->
     [audioId |-> db[i].audioId, userId |-> db[i].userId,
      timestamp |-> db[i].timestamp,
      fingerprintLength |-> Len(db[i].fingerprint)]]

\* getAllFingerprints(userId): one summary per entry the loop does not skip
getAllFingerprints(db, userId) ==
  LET kept == SelectSeq(db, LAMBDA e : ~(userId # Null /\ e.userId # userId))
  IN [i \in 1..Len(kept) |->
        [audioId |-> kept[i].audioId, userId |-> kept[i].userId,
         timestamp |-> kept[i].timestamp,
         fingerprintLength |-> Len(kept[i].fingerprint)]]

\* app.get('/api/audio/fingerprints'), with req.query.userId or without
GetFingerprints(userId) ==
  /\ resp' = [Reply("list", 200, <<userId>>) EXCEPT
                !.fingerprints = getAllFingerprints(database, userId)]
  /\ UNCHANGED <<database, file, fails, clock, cmpVars, dspVars, appVars, wavVars, playVars, reqVars>>

\* the process is started again: a new AudioFingerprint with an empty Map,
\* then fingerprinter.loadDatabase(DB_PATH); nothing has been answered yet
Restart ==
  /\ resp.op # "start"
  /\ database' = loadDatabase(<<>>, file)
  /\ resp' = [NoResp EXCEPT !.op = "start"]
  /\ UNCHANGED <<file, fails, clock, cmpVars, dspVars, appVars, wavVars, playVars, reqVars>>

\* the wall clock that new Date() reads moves on
Tick ==
  /\ clock < MaxTime
  /\ clock' = clock + 1
  /\ UNCHANGED <<database, file, fails, resp, cmpVars, dspVars, appVars, wavVars, playVars, reqVars>>

\* ------------------------------------------------------------------------
\* The requests of a run: every well-formed request over the clips, and one
\* request for each way a handler rejects a request.  The disk is asked for
\* an outcome only by a request that reaches saveDatabase.
\* ------------------------------------------------------------------------
StoreRequests(clips) ==
  {<<"ok", fp, audioId, userId>> :
     fp \in clips, audioId \in Ids, userId \in Users}
  \cup {<<"none", <<>>, "a", "u1">>, <<"nofile", <<>>, "a", "u1">>,
        <<"corrupt", <<>>, "a", "u1">>, <<"ok", <<>>, Null, "u1">>,
        <<"ok", <<>>, "a", Null>>}

Saves(r, outcomes) ==
  IF r[1] = "ok" /\ r[3] # Null /\ r[4] # Null THEN outcomes ELSE {TRUE}

MatchRequests(clips, thresholds, flags) ==
  {<<"ok", fp, threshold, userId, matchOwnOnly>> :
     fp \in clips, threshold \in thresholds, userId \in Users \cup {Null},
     matchOwnOnly \in flags}
  \cup {<<"none", <<>>, <<>>, Null, FALSE>>,
        <<"nofile", <<>>, <<>>, Null, FALSE>>,
        <<"corrupt", <<>>, <<>>, Null, FALSE>>}

RegisterOn(clips, outcomes) ==
  \E r \in StoreRequests(clips) : \E saveOk \in Saves(r, outcomes) :
    PostFingerprint(r[1], r[2], r[3], r[4], saveOk)

UploadOn(clips, outcomes) ==
  \E r \in StoreRequests(clips) : \E saveOk \in Saves(r, outcomes) :
    PostUpload(r[1], r[2], r[3], r[4], saveOk)

DeleteOn(outcomes) ==
  \E audioId \in Ids, saveOk \in outcomes : DeleteFingerprint(audioId, saveOk)

MatchOn(clips, thresholds, flags) ==
  \E r \in MatchRequests(clips, thresholds, flags) :
    PostMatch(r[1], r[2], r[3], r[4], r[5])

\* const fingerprinter = new AudioFingerprint(); loadDatabase finds no file
Init ==
  /\ database = <<>>
  /\ file = NoFile
  /\ clock = 0
  /\ fails = 0
  /\ resp = NoResp
  /\ cmpA = <<>>
  /\ cmpB = <<>>
  /\ cmpOut = Zero
  /\ cmpPc = "off"
  /\ pending = <<>>
  /\ written = {}
  /\ graves = NoGraves
  /\ NoCalls
  /\ NoPlayer
  /\ NoSignal
  /\ NoWizard

\* Runs of the server from its start, on a disk that may fail MaxFail times
Register == RegisterOn(StoreClips, BOOLEAN)
Upload == UploadOn(StoreClips, BOOLEAN)
Delete == DeleteOn(BOOLEAN)
Match == MatchOn(StoreClips, {<<>>}, {TRUE})

Next == Register \/ Upload \/ Delete \/ Match \/ Tick \/ Restart

Spec == Init /\ [][Next]_vars

\* ------------------------------------------------------------------------
\* Request runs: one request of any kind against every content the store
\* can have.  Registering the entries in order, and registering the first
\* identifier again later, builds each of these databases; the file is the
\* one of the last save, or absent when no save has succeeded yet.
\* ------------------------------------------------------------------------
Entries(clips, now) ==
  {Entry(audioId, fp, userId, t) :
     audioId \in Ids, fp \in clips, userId \in Users, t \in 0..now}

Databases(clips, now) ==
  {db \in UNION {[1..n -> Entries(clips, now)] : n \in 0..Cardinality(Ids)} :
     \A i, j \in DOMAIN db : i # j => db[i].audioId # db[j].audioId}

InitMatch ==
  /\ clock \in 0..MaxTime
  /\ database \in Databases(Clips, clock)
  /\ file \in {NoFile, saveDatabase(database)}
  /\ fails = 0
  /\ resp = NoResp
  /\ cmpA = <<>>
  /\ cmpB = <<>>
  /\ cmpOut = Zero
  /\ cmpPc = "off"
  /\ pending = <<>>
  /\ written = {}
  /\ graves = NoGraves
  /\ NoCalls
  /\ NoPlayer
  /\ NoSignal
  /\ NoWizard

\* no request has been served yet
Fresh == resp.op = "none"

RegisterM == Fresh /\ RegisterOn(Clips, BOOLEAN)
UploadM == Fresh /\ UploadOn(Clips, BOOLEAN)
DeleteM == Fresh /\ DeleteOn(BOOLEAN)
MatchM == Fresh /\ MatchOn(Clips, Thresholds, BOOLEAN)

ListM == Fresh /\ \E userId \in Users \cup {Null} : GetFingerprints(userId)

NextMatch == RegisterM \/ UploadM \/ DeleteM \/ MatchM \/ ListM

SpecMatch == InitMatch /\ [][NextMatch]_vars

\* ------------------------------------------------------------------------
\* Comparison runs: compareFingerprints on every pair of clips, and
\* matchAudio of the first clip against a store that holds the second
\* ------------------------------------------------------------------------
InitCompare ==
  /\ database = <<>>
  /\ file = NoFile
  /\ clock = 0
  /\ fails = 0
  /\ resp = NoResp
  /\ cmpA \in CmpClips
  /\ cmpB \in CmpClips
  /\ cmpOut = Zero
  /\ cmpPc = "ready"
  /\ pending = <<>>
  /\ written = {}
  /\ graves = NoGraves
  /\ NoCalls
  /\ NoPlayer
  /\ NoSignal
  /\ NoWizard

Compare ==
  /\ cmpPc = "ready"
  /\ cmpOut' = compareFingerprints(cmpA, cmpB)
  /\ cmpPc' = "scored"
  /\ UNCHANGED <<cmpA, cmpB, storeVars, reqVars, dspVars, appVars, wavVars, playVars>>

MatchOne ==
  /\ cmpPc = "ready"
  /\ \E threshold \in Thresholds :
       cmpOut' = matchAudio(<<Entry("a", cmpB, "u1", 0)>>, cmpA,
                            ThresholdOrDefault(threshold), Null).confidence
  /\ cmpPc' = "matched"
  /\ UNCHANGED <<cmpA, cmpB, storeVars, reqVars, dspVars, appVars, wavVars, playVars>>

\* the call of compareFingerprintsAligned made by compareFingerprints
Align ==
  /\ cmpPc = "ready"
  /\ Min2(Len(cmpA), Len(cmpB)) >= MinFrames
  /\ cmpOut' = compareFingerprintsAligned(cmpA, cmpB)
  /\ cmpPc' = "aligned"
  /\ UNCHANGED <<cmpA, cmpB, storeVars, reqVars, dspVars, appVars, wavVars, playVars>>

\* the scored pair is cut to the length of its shorter clip and compared
\* again
CompareTruncated ==
  /\ cmpPc = "scored"
  /\ LET minLen == Min2(Len(cmpA), Len(cmpB))
     IN /\ cmpA' = SubSeq(cmpA, 1, minLen)
        /\ cmpB' = SubSeq(cmpB, 1, minLen)
        /\ cmpOut' = compareFingerprints(SubSeq(cmpA, 1, minLen),
                                         SubSeq(cmpB, 1, minLen))
  /\ cmpPc' = "truncated"
  /\ UNCHANGED <<storeVars, reqVars, dspVars, appVars, wavVars, playVars>>

\* one pass of the frame loop of compareFingerprintsAligned: the frames at
\* position i and their frameSimilarity
CompareFrame ==
  /\ cmpPc = "ready"
  /\ \E i \in 1..Min2(Len(cmpA), Len(cmpB)) :
       /\ cmpA' = <<cmpA[i]>>
       /\ cmpB' = <<cmpB[i]>>
       /\ cmpOut' = Frac(FrameSimilarity(cmpA[i], cmpB[i])
                           * (ScoreUnit \div (100 * SCALE)), 1)
  /\ cmpPc' = "frame"
  /\ UNCHANGED <<storeVars, reqVars, dspVars, appVars, wavVars, playVars>>

NextCompare ==
  Compare \/ MatchOne \/ Align \/ CompareTruncated \/ CompareFrame

SpecCompare == InitCompare /\ [][NextCompare]_vars

\* ------------------------------------------------------------------------
\* Round trips: a store of at most one entry, one store request, and then a
\* match request for the same audio file, which generateFingerprint turns
\* into the same fingerprint
\* ------------------------------------------------------------------------
TripClips ==
  {Rep(FrameP, MinFrames - 1), Rep(FrameP, MinFrames),
   Rep(FrameR, MinFrames), Mixed(FrameP, FrameQ, MaxLen)}

TripThresholds == {<<>>, <<DEFAULT_THRESHOLD>>}

InitTrip ==
  /\ clock = 0
  /\ database \in {db \in Databases(TripClips, 0) : Len(db) <= 1}
  /\ file = saveDatabase(database)
  /\ fails = 0
  /\ resp = NoResp
  /\ cmpA = <<>>
  /\ cmpB = <<>>
  /\ cmpOut = Zero
  /\ cmpPc = "off"
  /\ pending = <<>>
  /\ written = {}
  /\ graves = NoGraves
  /\ NoCalls
  /\ NoPlayer
  /\ NoSignal
  /\ NoWizard

\* the last request was a store request and it succeeded
Stored == resp.op \in {"register", "upload"} /\ resp.status = 200

RegisterT == Fresh /\ RegisterOn(TripClips, BOOLEAN)
UploadT == Fresh /\ UploadOn(TripClips, BOOLEAN)
MatchT ==
  /\ Stored
  /\ \E r \in MatchRequests({resp.req[2]}, TripThresholds, BOOLEAN) :
       PostMatch(r[1], r[2], r[3], r[4], r[5])

NextTrip == RegisterT \/ UploadT \/ MatchT

SpecTrip == InitTrip /\ [][NextTrip]_vars

\* ------------------------------------------------------------------------
\* Interleaved requests.  Node runs one callback at a time; a handler gives
\* way to other requests only at an await.  The store route awaits
\* generateFingerprint (ffmpeg, decode) inside storeAudio and then
\* storeAudio itself, so database.set and saveDatabase are two steps; the
\* match route awaits matchAudio, whose loop over the database has no await
\* and is one step, and then the push notification before it answers.  The
\* delete route has no await and is one step.  pending[s] is request s on
\* its way through its handler.
\* ------------------------------------------------------------------------
NoResult == [match |-> Null, confidence |-> Zero, allScores |-> <<>>]

Idle == [op |-> "none", pc |-> "idle", req |-> <<>>, result |-> NoResult]
Done == [Idle EXCEPT !.pc = "done"]

ConcStores ==
  {<<"ok", Rep(FrameP, MinFrames), "a", "u1">>,
   <<"ok", Rep(FrameR, MinFrames), "a", "u2">>,
   <<"ok", Rep(FrameR, MinFrames), "b", "u2">>,
   <<"corrupt", <<>>, "a", "u1">>}

ConcMatches ==
  {<<"ok", Rep(FrameP, MinFrames), <<>>, "u1", FALSE>>,
   <<"ok", Rep(FrameP, MinFrames), <<>>, "u2", TRUE>>,
   <<"corrupt", <<>>, <<>>, Null, FALSE>>}

InitConc ==
  /\ database = <<>>
  /\ file = NoFile
  /\ clock = 0
  /\ fails = 0
  /\ resp = NoResp
  /\ cmpA = <<>>
  /\ cmpB = <<>>
  /\ cmpOut = Zero
  /\ cmpPc = "off"
  /\ pending = [s \in 1..MaxReq |-> Idle]
  /\ written = {}
  /\ graves = NoGraves
  /\ NoCalls
  /\ NoPlayer
  /\ NoSignal
  /\ NoWizard

\* request s arrives: the handler runs up to its first await
Arrive(s, op, req) ==
  /\ pending[s].pc = "idle"
  /\ s > 1 => pending[s - 1].pc # "idle"
  /\ pending' = [pending EXCEPT ![s] =
                   [op |-> op, pc |-> "fingerprint", req |-> req,
                    result |-> NoResult]]
  /\ UNCHANGED <<storeVars, written, graves, cmpVars, dspVars, appVars, wavVars, playVars>>

ArriveStore ==
  \E s \in DOMAIN pending, r \in ConcStores : Arrive(s, "register", r)
ArriveMatch ==
  \E s \in DOMAIN pending, r \in ConcMatches : Arrive(s, "match", r)

\* storeAudio after its await: this.database.set(audioId, {...}), or the
\* catch block of the route when generateFingerprint has thrown
StoreSet(s) ==
  LET p == pending[s]
  IN /\ p.op = "register"
     /\ p.pc = "fingerprint"
     /\ IF p.req[1] = "corrupt"
        THEN /\ resp' = Reply(p.op, 500, p.req)
             /\ pending' = [pending EXCEPT ![s] = Done]
             /\ UNCHANGED <<database, written, graves>>
        ELSE /\ database' =
                  storeAudio(database, p.req[2], p.req[3], p.req[4], clock)
             /\ written' =
                  written \cup {Entry(p.req[3], p.req[2], p.req[4], clock)}
             /\ graves' =
                  [graves EXCEPT ![p.req[3]] =
                     [@ EXCEPT !.untilAny = FALSE,
                               !.untilLater = @ /\ s \in graves[p.req[3]].inFlight]]
             /\ pending' = [pending EXCEPT ![s].pc = "save"]
             /\ UNCHANGED resp
     /\ UNCHANGED <<file, fails, clock, cmpVars, dspVars, appVars, wavVars, playVars>>

\* the store route after await storeAudio: saveDatabase and the response
StoreSave(s, saveOk) ==
  LET p == pending[s]
  IN /\ p.pc = "save"
     /\ IF saveOk
        THEN /\ file' = saveDatabase(database)
             /\ resp' = Reply(p.op, 200, p.req)
             /\ UNCHANGED fails
        ELSE /\ fails < MaxFail
             /\ fails' = fails + 1
             /\ resp' = Reply(p.op, 500, p.req)
             /\ UNCHANGED file
     /\ pending' = [pending EXCEPT ![s] = Done]
     /\ UNCHANGED <<database, clock, written, graves, cmpVars, dspVars, appVars, wavVars, playVars>>

\* matchAudio after its await: the loop, the sort and the return
MatchLoop(s) ==
  LET p == pending[s]
      result == matchAudio(database, p.req[2], ThresholdOrDefault(p.req[3]),
                           FilterUserId(p.req[5], p.req[4]))
  IN /\ p.op = "match"
     /\ p.pc = "fingerprint"
     /\ IF p.req[1] = "corrupt"
        THEN /\ resp' = Reply("match", 500, p.req)
             /\ pending' = [pending EXCEPT ![s] = Done]
        ELSE /\ pending' = [pending EXCEPT ![s].pc = "reply",
                                           ![s].result = result]
             /\ UNCHANGED resp
     /\ UNCHANGED <<database, file, fails, clock, written, graves, cmpVars, dspVars, appVars, wavVars, playVars>>

\* the match route after await matchAudio and the notification: res.json
MatchAnswer(s) ==
  LET p == pending[s]
  IN /\ p.pc = "reply"
     /\ resp' = MatchReply(p.req, p.result, p.req[4])
     /\ pending' = [pending EXCEPT ![s] = Done]
     /\ UNCHANGED <<database, file, fails, clock, written, graves, cmpVars, dspVars, appVars, wavVars, playVars>>

SetC == \E s \in DOMAIN pending : StoreSet(s)
SaveC == \E s \in DOMAIN pending : StoreSave(s, TRUE)
LoopC == \E s \in DOMAIN pending : MatchLoop(s)
AnswerC == \E s \in DOMAIN pending : MatchAnswer(s)
\* the store requests for audioId that have arrived and not yet written
InFlight(audioId) ==
  {s \in DOMAIN pending :
     /\ pending[s].op = "register"
     /\ pending[s].pc = "fingerprint"
     /\ pending[s].req[3] = audioId}

\* a delete request: the route runs from its first line to its response.
\* It starts on a new turn of the event loop, so not while a store route is
\* between database.set and saveDatabase, a stretch that waits for no I/O.
DeleteC ==
  \E audioId \in Ids :
    /\ \A s \in DOMAIN pending : pending[s].pc # "save"
    /\ DeleteRoute(audioId, TRUE)
    /\ graves' =
         IF MapHas(database, audioId)
         THEN [graves EXCEPT ![audioId] =
                 [inFlight |-> InFlight(audioId), untilLater |-> TRUE,
                  untilAny |-> TRUE]]
         ELSE graves
    /\ UNCHANGED <<pending, written>>

NextConc ==
  ArriveStore \/ ArriveMatch \/ SetC \/ SaveC \/ LoopC \/ AnswerC
  \/ DeleteC \/ Tick

SpecConc == InitConc /\ [][NextConc]_vars

\* ------------------------------------------------------------------------
\* The same match twice: request 1 is a match request, request 2 stores
\* again, at whatever time the clock then shows, an entry the store already
\* holds, and request 3 repeats request 1.  The three run interleaved.
\* ------------------------------------------------------------------------
TwiceClips == {Rep(FrameP, MinFrames), Rep(FrameR, MinFrames)}

InitTwice ==
  /\ clock = 0
  /\ database \in Databases(TwiceClips, 0)
  /\ file = saveDatabase(database)
  /\ fails = 0
  /\ resp = NoResp
  /\ cmpA = <<>>
  /\ cmpB = <<>>
  /\ cmpOut = Zero
  /\ cmpPc = "off"
  /\ pending = [s \in 1..3 |-> Idle]
  /\ written = {database[i] : i \in 1..Len(database)}
  /\ graves = NoGraves
  /\ NoCalls
  /\ NoPlayer
  /\ NoSignal
  /\ NoWizard

MatchFirst ==
  \E r \in MatchRequests(TwiceClips, {<<>>, <<50>>}, BOOLEAN) :
    r[1] = "ok" /\ Arrive(1, "match", r)

StoreAgain ==
  \E i \in 1..Len(database) :
    Arrive(2, "register",
           <<"ok", database[i].fingerprint, database[i].audioId,
             database[i].userId>>)

MatchAgain ==
  /\ pending[1].pc \in {"fingerprint", "reply"}
  /\ Arrive(3, "match", pending[1].req)

NextTwice ==
  MatchFirst \/ StoreAgain \/ MatchAgain \/ SetC \/ SaveC \/ LoopC
  \/ AnswerC \/ Tick

SpecTwice == InitTwice /\ [][NextTwice]_vars

\* ------------------------------------------------------------------------
\* Signal conditioner (extractFeatures, first two steps).  Samples are
\* fixed-point numbers: the integer x stands for the amplitude x / UNIT.
\* Products and quotients are cut towards zero, so a modelled amplitude is
\* never larger in magnitude than the exact one.
\* ------------------------------------------------------------------------
UNIT == 10000

MaxSamples == 4

\* cutoffFreq * 2 * Math.PI for the 80 Hz cutoff, rounded up
CutoffOmega == 503

\* x / y cut towards zero
Quot(x, y) == IF x >= 0 THEN x \div y ELSE -((-x) \div y)

RECURSIVE MaxAmplitude(_)
MaxAmplitude(samples) ==
  IF samples = <<>> THEN 0
  ELSE LET rest == MaxAmplitude(Tail(samples))
           abs == Abs(Head(samples))
       IN IF abs > rest THEN abs ELSE rest

\* mutation of normalizeAudio: the samples are passed on as they are
normalizeAudioRaw(samples) == samples

normalizeAudio(samples) ==
  LET maxAmplitude == MaxAmplitude(samples)
  IN IF maxAmplitude = 0 THEN samples
     ELSE [i \in 1..Len(samples) |-> Quot(samples[i] * UNIT, maxAmplitude)]

\* alpha = RC / (RC + dt) = sampleRate / (sampleRate + 2 pi cutoff)
Alpha(sampleRate) == (sampleRate * UNIT) \div (sampleRate + CutoffOmega)

RECURSIVE Filtered(_, _, _)
Filtered(samples, alpha, i) ==
  IF i = 1 THEN samples[1]
  ELSE Quot(alpha * (Filtered(samples, alpha, i - 1)
                       + samples[i] - samples[i - 1]), UNIT)

highPassFilter(samples, sampleRate) ==
  [i \in 1..Len(samples) |-> Filtered(samples, Alpha(sampleRate), i)]

condition(samples, sampleRate) ==
  highPassFilter(normalizeAudio(samples), sampleRate)

\* raw sample values: silence, full scale and three times full scale, in
\* both signs
SampleValues == {-3 * UNIT, -UNIT, 0, UNIT, 3 * UNIT}

SampleRates == {8000, 44100}

RECURSIVE Buffers(_)
Buffers(n) ==
  IF n = 0 THEN {<<>>}
  ELSE LET shorter == Buffers(n - 1)
       IN shorter \cup
            {Append(b, v) : b \in {c \in shorter : Len(c) = n - 1},
                            v \in SampleValues}

InitCondition ==
  /\ database = <<>>
  /\ file = NoFile
  /\ clock = 0
  /\ fails = 0
  /\ resp = NoResp
  /\ cmpA = <<>>
  /\ cmpB = <<>>
  /\ cmpOut = Zero
  /\ cmpPc = "off"
  /\ pending = <<>>
  /\ written = {}
  /\ graves = NoGraves
  /\ NoCalls
  /\ NoPlayer
  /\ audioData \in [channelData : Buffers(MaxSamples) \ {<<>>},
                     sampleRate : SampleRates]
  /\ conditioned = [ran |-> FALSE, samples |-> <<>>]
  /\ extracted = [ran |-> FALSE, frames |-> <<>>]
  /\ spectrum = <<>>
  /\ NoWizard

\* extractFeatures up to the conditioned samples
Condition ==
  /\ ~conditioned.ran
  /\ conditioned' =
       [ran |-> TRUE,
        samples |-> condition(audioData.channelData, audioData.sampleRate)]
  /\ UNCHANGED <<audioData, extracted, spectrum>>
  /\ UNCHANGED <<storeVars, cmpVars, reqVars, appVars, wavVars, playVars>>

NextCondition == Condition

SpecCondition == InitCondition /\ [][NextCondition]_vars

\* ------------------------------------------------------------------------
\* Onboarding wizard, steps 2 to 5.  A text is a sequence of characters;
\* event is the handler that ran last.  The step component's props are the
\* wizard's data, so a change handed to the wizard is what the next handler
\* sees.
\* ------------------------------------------------------------------------
SoundKeys == {"smokeAlarm", "glassBreaking", "doorbell", "babyCrying"}

Digits == {"0", "1", "2", "3", "4", "5", "6", "7", "8", "9"}

IsDigit(ch) == ch \in Digits

\* the same character n times
Rep1(ch, n) == [i \in 1..n |-> ch]

\* phone numbers typed into the field: nothing, nine digits, ten digits,
\* ten characters of which eight are digits, and "+1 (555) 123-4567"
Phones ==
  {<<>>, Rep1("5", 9), Rep1("5", 10),
   <<"5", "5", "5", "-", "1", "2", "3", "-", "4", "5">>,
   <<"+", "1", " ", "(", "5", "5", "5", ")", " ", "1", "2", "3", "-",
     "4", "5", "6", "7">>}

Names == {"", "John Doe"}

\* mutation of toggleSound: no key is locked
toggleSoundUnlocked(types, key) == [types EXCEPT ![key] = ~types[key]]

\* toggleSound(key): the sound types handed to onSoundTypesChange, or the
\* current ones when the handler returns early
toggleSound(types, key) ==
  IF key = "smokeAlarm" THEN types
  ELSE [types EXCEPT ![key] = ~types[key]]

\* phone.replace(/\D/g, "").length >= 10
validatePhone(phone) == Len(SelectSeq(phone, IsDigit)) >= 10

\* the wizard arrives at the sound-type step with the default data
InitOnboard ==
  /\ database = <<>>
  /\ file = NoFile
  /\ clock = 0
  /\ fails = 0
  /\ resp = NoResp
  /\ cmpA = <<>>
  /\ cmpB = <<>>
  /\ cmpOut = Zero
  /\ cmpPc = "off"
  /\ pending = <<>>
  /\ written = {}
  /\ graves = NoGraves
  /\ NoCalls
  /\ NoPlayer
  /\ NoSignal
  /\ soundTypes = defaultSoundTypes
  /\ emergencyContact = [name |-> "", phone |-> <<>>]
  /\ errors = [name |-> "", phone |-> ""]
  /\ step = 2
  /\ event = [op |-> "none", key |-> ""]

otherVars == <<storeVars, cmpVars, reqVars, dspVars, wavVars, playVars>>

\* onNext of the wizard
onNext == step' = step + 1

\* a sound-type switch changes value, or toggleSound is called on the
\* locked key
ToggleSound ==
  /\ step = 2
  /\ \E key \in SoundKeys :
       /\ soundTypes' = toggleSound(soundTypes, key)
       /\ event' = [op |-> "toggleSound", key |-> key]
  /\ UNCHANGED <<emergencyContact, errors, step, otherVars>>

\* Continue on the sound-type step and on the alert-delivery step
ContinueStep ==
  /\ step \in {2, 3}
  /\ onNext
  /\ event' = [op |-> "next", key |-> ""]
  /\ UNCHANGED <<soundTypes, emergencyContact, errors, otherVars>>

\* onChangeText of the name field
ChangeName ==
  /\ step = 4
  /\ \E text \in Names :
       emergencyContact' = [emergencyContact EXCEPT !.name = text]
  /\ event' = [op |-> "name", key |-> ""]
  /\ UNCHANGED <<soundTypes, errors, step, otherVars>>

\* onChangeText of the phone field
ChangePhone ==
  /\ step = 4
  /\ \E text \in Phones :
       emergencyContact' = [emergencyContact EXCEPT !.phone = text]
  /\ errors' = [errors EXCEPT !.phone = ""]
  /\ event' = [op |-> "phone", key |-> ""]
  /\ UNCHANGED <<soundTypes, step, otherVars>>

handleContinue ==
  /\ step = 4
  /\ IF emergencyContact.name # "" \/ emergencyContact.phone # <<>>
     THEN LET hasErrors ==
                /\ emergencyContact.phone # <<>>
                /\ ~validatePhone(emergencyContact.phone)
              newErrors ==
                [name |-> "",
                 phone |-> IF hasErrors
                           THEN "Please enter a valid phone number" ELSE ""]
          IN /\ errors' = newErrors
             /\ IF hasErrors THEN step' = step ELSE onNext
     ELSE /\ onNext
          /\ errors' = errors
  /\ event' = [op |-> "continue", key |-> ""]
  /\ UNCHANGED <<soundTypes, emergencyContact, otherVars>>

handleSkip ==
  /\ step = 4
  /\ emergencyContact' = [name |-> "", phone |-> <<>>]
  /\ onNext
  /\ event' = [op |-> "skip", key |-> ""]
  /\ UNCHANGED <<soundTypes, errors, otherVars>>

NextOnboard ==
  \/ ToggleSound
  \/ ContinueStep
  \/ ChangeName
  \/ ChangePhone
  \/ handleContinue
  \/ handleSkip

SpecOnboard == InitOnboard /\ [][NextOnboard]_vars

\* ------------------------------------------------------------------------
\* Windowing (the frame loop of extractFeatures).  A frame is recorded by
\* the start and the size of the window it was computed from.
\* ------------------------------------------------------------------------
windowSize == 2048

hopSize == 512

MaxHops == 4

\* samples.slice(i, i + windowSize), as start and size
Slice(len, i) == [start |-> i, size |-> Min2(i + windowSize, len) - i]

\* the loop for (i = 0; i < samples.length - windowSize; i += hopSize)
RECURSIVE FrameLoop(_, _)
FrameLoop(len, i) ==
  IF i < len - windowSize
  THEN <<Slice(len, i)>> \o FrameLoop(len, i + hopSize)
  ELSE <<>>

\* buffer lengths around the window size and around each further hop, and
\* buffers shorter than a window
BufferLens ==
  {windowSize + k * hopSize + d : k \in 0..MaxHops, d \in -2..2}
  \cup {0, 1, hopSize}

InitWindow ==
  /\ database = <<>>
  /\ file = NoFile
  /\ clock = 0
  /\ fails = 0
  /\ resp = NoResp
  /\ cmpA = <<>>
  /\ cmpB = <<>>
  /\ cmpOut = Zero
  /\ cmpPc = "off"
  /\ pending = <<>>
  /\ written = {}
  /\ graves = NoGraves
  /\ NoCalls
  /\ NoPlayer
  /\ \E len \in BufferLens, sampleRate \in SampleRates :
       audioData = [channelData |-> [k \in 1..len |-> 0],
                    sampleRate |-> sampleRate]
  /\ conditioned = [ran |-> FALSE, samples |-> <<>>]
  /\ extracted = [ran |-> FALSE, frames |-> <<>>]
  /\ spectrum = <<>>
  /\ NoWizard

\* extractFeatures: the frames pushed by the loop
ExtractFrames ==
  /\ ~extracted.ran
  /\ extracted' =
       [ran |-> TRUE, frames |-> FrameLoop(Len(audioData.channelData), 0)]
  /\ UNCHANGED <<audioData, conditioned, spectrum>>
  /\ UNCHANGED <<storeVars, cmpVars, reqVars, appVars, wavVars, playVars>>

NextWindow == ExtractFrames

SpecWindow == InitWindow /\ [][NextWindow]_vars

\* ------------------------------------------------------------------------
\* Peak frequencies of a frame.  spectrum[k + 1] is the magnitude of bin k;
\* a frequency is recorded times spectrum.length, so that bin k maps to the
\* integer k * nyquist.
\* ------------------------------------------------------------------------
\* spectrum.length: maxBin of computeFullFFT for a full window
maxBin == Min2(512, windowSize \div 2)

MaxMag == 2

\* Math.ceil(a / b) for a >= 0, b > 0
CeilDiv(a, b) == (a + b - 1) \div b

\* mutation of PeakStep: a later bin of equal magnitude replaces the peak
PeakStepLast(spec, i, st) ==
  IF spec[i + 1] >= st.maxMag THEN [maxMag |-> spec[i + 1], peakBin |-> i]
  ELSE st

\* the body of the search loop of findPeakFrequency at bin i
PeakStep(spec, i, st) ==
  IF spec[i + 1] > st.maxMag THEN [maxMag |-> spec[i + 1], peakBin |-> i]
  ELSE st

\* the search loop for (i = lowBin; i < end; i++) from state st on: the
\* bins are visited in increasing order, the first half of the range
\* before the second; the state after the first half is worked out before
\* the second half starts
RECURSIVE PeakLoop(_, _, _, _)
PeakLoop(spec, i, end, st) ==
  IF i >= end THEN st
  ELSE IF i + 1 = end THEN PeakStep(spec, i, st)
  ELSE LET mid == (i + end) \div 2
           left == PeakLoop(spec, i, mid, st)
       IN IF left = st THEN PeakLoop(spec, mid, end, st)
          ELSE PeakLoop(spec, mid, end, left)

findPeakFrequency(spec, sampleRate, lowFreq, highFreq) ==
  LET nyquist == sampleRate \div 2
      lowBin == (lowFreq * Len(spec)) \div nyquist
      highBin == CeilDiv(highFreq * Len(spec), nyquist)
      start == [maxMag |-> 0, peakBin |-> lowBin]
  IN PeakLoop(spec, lowBin, Min2(highBin, Len(spec)), start).peakBin * nyquist

\* bins at which the drawn spectra have their peaks: the ends and the
\* quarter points of the spectrum and bins in between
PeakBins ==
  {0, maxBin \div 8, maxBin \div 4 - 1, maxBin \div 4, (3 * maxBin) \div 8,
   maxBin \div 2 - 1, maxBin \div 2, (3 * maxBin) \div 4, maxBin - 1}

\* a spectrum that is zero but for magnitude m1 at bin b1 and m2 at bin b2
TwoPeaks(b1, m1, b2, m2) ==
  [k \in 1..maxBin |->
     IF k = b2 + 1 THEN m2 ELSE IF k = b1 + 1 THEN m1 ELSE 0]

Spectra ==
  {TwoPeaks(b1, m1, b2, m2) :
     b1 \in PeakBins, b2 \in PeakBins, m1 \in 0..MaxMag, m2 \in 1..MaxMag}

InitPeak ==
  /\ database = <<>>
  /\ file = NoFile
  /\ clock = 0
  /\ fails = 0
  /\ resp = NoResp
  /\ cmpA = <<>>
  /\ cmpB = <<>>
  /\ cmpOut = Zero
  /\ cmpPc = "off"
  /\ pending = <<>>
  /\ written = {}
  /\ graves = NoGraves
  /\ NoCalls
  /\ NoPlayer
  /\ \E sampleRate \in SampleRates :
       audioData = [channelData |-> <<>>, sampleRate |-> sampleRate]
  /\ conditioned = [ran |-> FALSE, samples |-> <<>>]
  /\ extracted = [ran |-> FALSE, frames |-> <<>>]
  /\ spectrum \in Spectra
  /\ NoWizard

\* the peakFreq1 and peakFreq2 entries of the features of one frame
FindPeaks ==
  /\ ~extracted.ran
  /\ LET sampleRate == audioData.sampleRate
     IN extracted' =
          [ran |-> TRUE,
           frames |->
             <<[peakFreq1 |-> findPeakFrequency(spectrum, sampleRate, 0,
                                                sampleRate \div 4),
                peakFreq2 |-> findPeakFrequency(spectrum, sampleRate,
                                                sampleRate \div 4,
                                                sampleRate \div 2)]>>]
  /\ UNCHANGED <<audioData, conditioned, spectrum>>
  /\ UNCHANGED <<storeVars, cmpVars, reqVars, appVars, wavVars, playVars>>

NextPeak == FindPeaks

SpecPeak == InitPeak /\ [][NextPeak]_vars

\* ------------------------------------------------------------------------
\* Properties
\* ------------------------------------------------------------------------
Mutating == {"register", "upload", "delete"}

\* the file holds exactly the entries of db, in order
FileHolds(f, db) ==
  /\ f.exists
  /\ Len(f.entries) = Len(db)
  /\ \A i \in 1..Len(db) :
       /\ f.entries[i][1] = db[i].audioId
       /\ f.entries[i][2].fingerprint = db[i].fingerprint
       /\ f.entries[i][2].userId = db[i].userId
       /\ f.entries[i][2].timestamp = db[i].timestamp

\* the in-memory mapping is the last one written; none written: empty
MemoryIsDurable(db, f) == IF f.exists THEN FileHolds(f, db) ELSE db = <<>>

HasId(db, audioId) == \E i \in 1..Len(db) : db[i].audioId = audioId
EntriesOf(db, audioId) == SelectSeq(db, LAMBDA e : e.audioId = audioId)

\* C1: whenever a Register (either route) or Delete request has answered
\* success, the fingerprints file holds the in-memory mapping of that moment:
\* the write is done when the success response goes out.
C1_SavedBeforeSuccess ==
  (resp.op \in Mutating /\ resp.status = 200) => FileHolds(file, database)

\* a store request succeeds after a write has failed, with two entries
C1_Witness ==
  /\ resp.op = "upload"
  /\ resp.status = 200
  /\ fails = MaxFail
  /\ Len(database) = 2
  /\ FileHolds(file, database)

\* C2: when saveDatabase fails during a Register or Delete request, the
\* request reports an error and afterwards the in-memory mapping still
\* equals the last durably written mapping.
C2_NoDivergenceOnFailedSave ==
  [][fails' # fails =>
       (resp'.status = 500 /\ MemoryIsDurable(database', file'))]_vars

\* C3: every identifier maps to at most one entry, and a successful
\* Register(id, fp, owner) leaves exactly one entry for id, with the
\* fingerprint and owner of that call, and the entries under other
\* identifiers as they were.
C3_RegisterReplaces ==
  [][(resp'.op \in {"register", "upload"} /\ resp'.status = 200) =>
       LET fp == resp'.req[2]
           audioId == resp'.req[3]
           userId == resp'.req[4]
           mine == {i \in 1..Len(database') : database'[i].audioId = audioId}
       IN /\ Cardinality(mine) = 1
          /\ \A i \in mine :
               /\ database'[i].fingerprint = fp
               /\ database'[i].userId = userId
          /\ \A other \in Ids \ {audioId} :
               /\ EntriesOf(database', other) = EntriesOf(database, other)
               /\ Len(EntriesOf(database', other)) <= 1]_vars

\* a registration has overwritten the entry inserted first, next to another
C3_Witness ==
  /\ resp.op = "register"
  /\ resp.status = 200
  /\ Len(database) = 2
  /\ database[1].audioId = resp.req[3]
  /\ database[1].fingerprint = resp.req[2]
  /\ database[1].fingerprint # database[2].fingerprint

\* C4: Delete(id) reports a deletion exactly when an entry for id existed;
\* then that entry and only that entry is gone, and a success response means
\* the file holds the new mapping (the only other answer is the 500 of a
\* failed write).  Delete of an absent id answers 404 and changes neither
\* the in-memory store nor the file.
C4_Delete ==
  [][resp'.op = "delete" =>
       LET audioId == resp'.req[1]
           had == HasId(database, audioId)
       IN /\ resp'.deleted = had
          /\ (resp'.status = 404) = ~had
          /\ had => /\ resp'.status \in {200, 500}
                    /\ (resp'.status = 500) = (fails' # fails)
                    /\ ~HasId(database', audioId)
                    /\ Len(database') = Len(database) - 1
                    /\ \A other \in Ids \ {audioId} :
                         EntriesOf(database', other) = EntriesOf(database, other)
          /\ resp'.status = 200 => FileHolds(file', database')
          /\ ~had => (database' = database /\ file' = file)]_vars

\* one of two entries has been deleted and the file holds the other
C4_Witness ==
  /\ resp.op = "delete"
  /\ resp.status = 200
  /\ Len(database) = 1
  /\ database[1].audioId # resp.req[1]
  /\ FileHolds(file, database)

\* C5: a Match request leaves the in-memory store and the fingerprints file
\* unchanged, whatever the store, the clip, the threshold and the filter.
C5_MatchIsPureRead ==
  [][resp'.op = "match" => (database' = database /\ file' = file)]_vars

\* a match has been found in a saved store of two entries
C5_Witness ==
  /\ resp.op = "match"
  /\ resp.match # Null
  /\ Len(database) = 2
  /\ FileHolds(file, database)

\* the owner filter of the request in resp: (matchOwnOnly && userId)
AskedFilter(r) == IF r.req[5] /\ r.req[4] # Null THEN r.req[4] ELSE Null

\* C6: when Match is called with an owner filter, every element of
\* rankedScores has that owner, and bestId, when not null, names a
\* reference of that owner.
C6_OwnerFilter ==
  [][(resp'.op = "match" /\ resp'.status = 200
      /\ AskedFilter(resp') # Null) =>
       /\ \A k \in 1..Len(resp'.allScores) :
            resp'.allScores[k].userId = AskedFilter(resp')
       /\ resp'.match # Null =>
            \E i \in 1..Len(database) :
              /\ database[i].audioId = resp'.match
              /\ database[i].userId = AskedFilter(resp')]_vars

\* the same sound is stored under two owners and a filtered match returns
\* the one of the asking owner only
C6_Witness ==
  /\ resp.op = "match"
  /\ AskedFilter(resp) # Null
  /\ Len(database) = 2
  /\ database[1].fingerprint = database[2].fingerprint
  /\ database[1].userId # database[2].userId
  /\ Len(resp.allScores) = 1
  /\ resp.match # Null

\* C7: rankedScores holds every stored candidate that passes the owner
\* filter exactly once, with its score, in descending order of score.
C7_RankedScores ==
  [][(resp'.op = "match" /\ resp'.status = 200) =>
       LET a == resp'.allScores
           cand == {i \in 1..Len(database) :
                      AskedFilter(resp') = Null
                      \/ database[i].userId = AskedFilter(resp')}
       IN /\ Len(a) = Cardinality(cand)
          /\ \A i \in cand :
               \E k \in 1..Len(a) :
                 /\ a[k].audioId = database[i].audioId
                 /\ a[k].userId = database[i].userId
                 /\ FracEq(a[k].score,
                           Score(resp'.req[2], database[i].fingerprint))
                 /\ \A j \in 1..Len(a) :
                      a[j].audioId = a[k].audioId => j = k
          /\ \A k \in 1..(Len(a) - 1) : FracGe(a[k].score, a[k + 1].score)]_vars

\* two candidates are ranked against their order of insertion
C7_Witness ==
  /\ resp.op = "match"
  /\ Len(resp.allScores) = 2
  /\ Len(database) = 2
  /\ resp.allScores[1].audioId = database[2].audioId
  /\ FracGt(resp.allScores[1].score, resp.allScores[2].score)
  /\ resp.allScores[2].score.n > 0

\* the threshold a request asks for, in hundredths: 0.85 when it names none
AskedThreshold(r) ==
  IF r.req[3] = <<>> THEN DEFAULT_THRESHOLD ELSE r.req[3][1]

\* the indices of the elements of a with the highest score
Top(a) == {k \in 1..Len(a) : \A j \in 1..Len(a) : FracGe(a[k].score, a[j].score)}

\* C8: for every non-empty candidate set and every threshold, a candidate
\* with the highest score is bestId when that score is at least the
\* threshold; when it is below the threshold bestId is null and confidence
\* still is that highest score.
C8_SelectionAndThreshold ==
  [][(resp'.op = "match" /\ resp'.status = 200
      /\ Len(resp'.allScores) > 0) =>
       LET a == resp'.allScores
       IN \A k \in Top(a) :
            IF ScoreAtLeast(a[k].score, AskedThreshold(resp'))
            THEN \E t \in Top(a) : resp'.match = a[t].audioId
            ELSE /\ resp'.match = Null
                 /\ FracEq(resp'.confidence, a[k].score)]_vars

\* C9: Match against an empty store, or a store without a reference of the
\* filtered owner, answers success with no match, confidence 0 and an empty
\* rankedScores.
C9_NoCandidates ==
  [][(resp'.op = "match" /\ resp'.req[1] = "ok"
      /\ \A i \in 1..Len(database) :
           /\ AskedFilter(resp') # Null
           /\ database[i].userId # AskedFilter(resp')) =>
       /\ resp'.status = 200
       /\ resp'.match = Null
       /\ resp'.confidence = Zero
       /\ resp'.allScores = <<>>
       /\ ~resp'.notify]_vars

\* a filtered match against a store that holds a reference of another owner
C9_Witness ==
  /\ resp.op = "match"
  /\ resp.status = 200
  /\ Len(database) = 1
  /\ AskedFilter(resp) # Null
  /\ database[1].userId # AskedFilter(resp)
  /\ database[1].fingerprint = resp.req[2]
  /\ Len(resp.req[2]) >= MinFrames
  /\ resp.allScores = <<>>

\* C10: every score of compareFingerprints and every confidence of
\* matchAudio lies in [0, 1].
C10_ScoreInUnitInterval ==
  cmpPc \in {"scored", "matched"} =>
    /\ cmpOut.d > 0
    /\ cmpOut.n >= 0
    /\ cmpOut.n <= cmpOut.d * ScoreUnit

\* a clip of at least MinFrames frames matched against itself scores 1
C10_Witness ==
  /\ cmpPc = "matched"
  /\ Len(cmpA) >= MinFrames
  /\ cmpA = cmpB
  /\ cmpOut.n = cmpOut.d * ScoreUnit

\* the match request of resp asks for a threshold of 0.85 and its owner
\* filter lets the entries of userId through
AsksDefaultFor(r, userId) ==
  /\ r.op = "match"
  /\ r.status = 200
  /\ AskedThreshold(r) = DEFAULT_THRESHOLD
  /\ AskedFilter(r) \in {Null, userId}

\* C11 as stated: after a successful Register of a clip under an id, Match
\* of the same clip with threshold 0.85 returns that id as bestId with
\* confidence at least 0.99, for every clip that yields an analysis window.
C11_SelfMatchEveryClip ==
  [][(Stored /\ AsksDefaultFor(resp', resp.req[4])
      /\ resp'.req[2] = resp.req[2]) =>
       /\ resp'.match = resp.req[3]
       /\ ScoreAtLeast(resp'.confidence, 99)]_vars

\* C11 amended: the same, for every clip of at least 10 frames; bestId is
\* the registered id, or an id inserted into the store before it whose
\* fingerprint reaches the same score.
C11_SelfMatch ==
  [][(Stored /\ AsksDefaultFor(resp', resp.req[4])
      /\ resp'.req[2] = resp.req[2]
      /\ Len(resp.req[2]) >= MinFrames) =>
       /\ ScoreAtLeast(resp'.confidence, 99)
       /\ \E i \in 1..Len(database) :
            /\ database[i].audioId = resp'.match
            /\ \/ resp'.match = resp.req[3]
               \/ \E j \in (i + 1)..Len(database) :
                    /\ database[j].audioId = resp.req[3]
                    /\ FracEq(Score(resp'.req[2], database[i].fingerprint),
                              resp'.confidence)]_vars

\* a clip registered second, behind a different sound, is matched
C11_Witness ==
  /\ resp.op = "match"
  /\ Len(database) = 2
  /\ resp.match = database[2].audioId
  /\ resp.req[2] = database[2].fingerprint
  /\ database[1].fingerprint # database[2].fingerprint
  /\ Len(database[1].fingerprint) >= MinFrames
  /\ ScoreAtLeast(resp.confidence, 99)

\* the store request of resp is well formed and its audio file decodes to
\* fewer samples than one analysis window needs: generateFingerprint
\* returns the empty fingerprint
StoresShortClip(r) ==
  /\ r.op \in {"register", "upload"}
  /\ r.req[1] = "ok"
  /\ r.req[3] # Null
  /\ r.req[4] # Null
  /\ r.req[2] = <<>>

\* C12: Register with an empty or too-short sample buffer fails with an
\* error reported to the caller and leaves the store unchanged; it never
\* succeeds by storing an empty fingerprint.  Stated for requests during
\* which the disk does not fail.
C12_ShortClipRejected ==
  [][(StoresShortClip(resp') /\ fails' = fails) =>
       /\ resp'.status # 200
       /\ database' = database
       /\ file' = file]_vars

\* the slots whose matchAudio loop runs in this step
Looping == {s \in DOMAIN pending :
              pending[s].pc = "fingerprint" /\ pending'[s].pc = "reply"}

\* the owner filter of the match request in slot s
SlotFilter(s) ==
  IF pending[s].req[5] /\ pending[s].req[4] # Null
  THEN pending[s].req[4] ELSE Null

\* C13: in every interleaving of Register, Delete and Match requests, the
\* store only ever holds entries written whole by one store request, under
\* distinct identifiers; each Match scores exactly the candidates that the
\* store holds at the instant of its loop, each with the fingerprint and
\* owner of one whole entry, and answers with that result.
C13_SnapshotConsistent ==
  [][/\ \A i \in 1..Len(database') :
          /\ database'[i] \in written'
          /\ \A j \in 1..Len(database') :
               database'[j].audioId = database'[i].audioId => j = i
     /\ \A s \in Looping :
          LET a == pending'[s].result.allScores
              cand == {e \in written :
                         /\ \E i \in 1..Len(database) : database[i] = e
                         /\ SlotFilter(s) \in {Null, e.userId}}
          IN /\ Len(a) = Cardinality(cand)
             /\ \A e \in cand :
                  \E k \in 1..Len(a) :
                    /\ a[k].audioId = e.audioId
                    /\ a[k].userId = e.userId
                    /\ FracEq(a[k].score,
                              Score(pending[s].req[2], e.fingerprint))
     /\ \A s \in DOMAIN pending :
          (pending[s].pc = "reply" /\ pending'[s].pc = "done") =>
            /\ resp'.allScores = pending[s].result.allScores
            /\ resp'.match = pending[s].result.match
            /\ resp'.confidence = pending[s].result.confidence]_vars

\* a match request that arrived first has scored the store between the set
\* and the save of a store request that arrived after it
C13_Witness ==
  /\ pending[1].pc = "reply"
  /\ Len(pending[1].result.allScores) = 1
  /\ pending[1].result.match = "a"
  /\ pending[2].pc = "save"
  /\ Len(database) = 1
  /\ file = NoFile

\* C14: two Match calls with the same unknown fingerprint, threshold and
\* owner filter, against stores that hold the same fingerprints and owners
\* under the same identifiers in the same order, return the same bestId,
\* confidence and rankedScores, whatever the clock shows, whatever the
\* timestamps of the entries are and whatever a store request in flight is
\* doing.
C14_Deterministic ==
  [][(pending[1].pc = "reply" /\ pending[3].pc = "fingerprint"
      /\ pending'[3].pc = "reply") =>
       /\ pending'[3].req = pending[1].req
       /\ pending'[3].result.match = pending[1].result.match
       /\ FracEq(pending'[3].result.confidence, pending[1].result.confidence)
       /\ Len(pending'[3].result.allScores)
            = Len(pending[1].result.allScores)
       /\ \A k \in 1..Len(pending[1].result.allScores) :
            /\ pending'[3].result.allScores[k].audioId
                 = pending[1].result.allScores[k].audioId
            /\ pending'[3].result.allScores[k].userId
                 = pending[1].result.allScores[k].userId
            /\ FracEq(pending'[3].result.allScores[k].score,
                      pending[1].result.allScores[k].score)]_vars

\* both matches have run, the second a second later and after the entry it
\* matches was stored again with a new timestamp, still unsaved
C14_Witness ==
  /\ pending[1].pc = "reply"
  /\ pending[3].pc = "reply"
  /\ pending[2].pc = "save"
  /\ clock = 1
  /\ pending[3].result.match # Null
  /\ Len(pending[3].result.allScores) = 2
  /\ \E i \in 1..Len(database) :
       /\ database[i].audioId = pending[3].result.match
       /\ database[i].timestamp = 1

\* the score c is at least 0.80 = 4/5
AtLeastFourFifths(c) == 5 * c.n >= 4 * c.d * ScoreUnit

C16_RoundTrip ==
  [][resp'.op = "start" =>
       /\ file' = file
       /\ IF file.exists
          THEN /\ FileHolds(file, database')
               /\ (resp.op \in Mutating /\ resp.status = 200) =>
                    database' = database
          ELSE database' = <<>>]_vars

\* the server has started again with two entries of different owners and
\* times in its file
C16_Witness ==
  /\ resp.op = "start"
  /\ Len(database) = 2
  /\ database[1].userId # database[2].userId
  /\ database[1].timestamp # database[2].timestamp
  /\ FileHolds(file, database)

\* C17: List(ownerFilter) answers with one summary for exactly the stored
\* entries whose owner is the filter (all entries without a filter), in
\* store order, each with the id, owner and timestamp of its entry and the
\* number of frames of its fingerprint, and leaves store and file as they
\* are.
C17_List ==
  [][resp'.op = "list" =>
       LET f == resp'.fingerprints
           filter == resp'.req[1]
           listed == {i \in 1..Len(database) :
                        filter = Null \/ database[i].userId = filter}
       IN /\ resp'.status = 200
          /\ database' = database
          /\ file' = file
          /\ Len(f) = Cardinality(listed)
          /\ \A i \in listed :
               \E k \in 1..Len(f) :
                 /\ f[k].audioId = database[i].audioId
                 /\ f[k].userId = database[i].userId
                 /\ f[k].timestamp = database[i].timestamp
                 /\ f[k].fingerprintLength = Len(database[i].fingerprint)
                 /\ k = Cardinality({j \in listed : j <= i})]_vars

\* a list for one owner leaves out the other owner's entry
C17_Witness ==
  /\ resp.op = "list"
  /\ resp.req[1] # Null
  /\ Len(database) = 2
  /\ Len(resp.fingerprints) = 1
  /\ resp.fingerprints[1].audioId = database[2].audioId
  /\ resp.fingerprints[1].fingerprintLength = MinFrames

\* the samples handed to the conditioner are all zero
Silent == \A i \in 1..Len(audioData.channelData) : audioData.channelData[i] = 0

PeakWithin(limit) ==
  \A i \in 1..Len(conditioned.samples) : Abs(conditioned.samples[i]) <= limit

\* C18 as stated: for every sample buffer the conditioner's output has
\* maximum absolute amplitude at most 1.0, and an all-zero input comes back
\* unchanged.
C18_PeakAtMostOne ==
  conditioned.ran =>
    /\ PeakWithin(UNIT)
    /\ Silent => conditioned.samples = audioData.channelData

\* C18: for every sample buffer the conditioner's output has maximum
\* absolute amplitude at most 2.0, and an all-zero input comes back
\* unchanged.
C18_PeakAtMostTwo ==
  conditioned.ran =>
    /\ PeakWithin(2 * UNIT)
    /\ Silent => conditioned.samples = audioData.channelData

\* a buffer three times over full scale was scaled down, and the filter's
\* output overshoots full scale
C18_Witness ==
  /\ conditioned.ran
  /\ MaxAmplitude(audioData.channelData) = 3 * UNIT
  /\ ~PeakWithin(UNIT)

\* C19: with smokeAlarm on at the start, smokeAlarm stays on after every
\* toggleSound call on any key, and a toggleSound call on another key flips
\* that key and leaves the remaining keys as they were.
C19_SmokeAlarmLocked ==
  [][/\ soundTypes.smokeAlarm => soundTypes'.smokeAlarm
     /\ event'.op = "toggleSound" =>
          \A k \in SoundKeys \ {"smokeAlarm"} :
            soundTypes'[k] =
              IF k = event'.key THEN ~soundTypes[k] ELSE soundTypes[k]]_vars

\* toggleSound was called on the locked key after two other keys had been
\* switched off
C19_Witness ==
  /\ event = [op |-> "toggleSound", key |-> "smokeAlarm"]
  /\ soundTypes.smokeAlarm
  /\ ~soundTypes.glassBreaking
  /\ ~soundTypes.doorbell
  /\ soundTypes.babyCrying

\* some field of the contact form is filled in
Filled == emergencyContact.name # "" \/ emergencyContact.phone # <<>>

\* a phone number is present and has at least ten digits
PhonePresent ==
  /\ emergencyContact.phone # <<>>
  /\ Cardinality({i \in DOMAIN emergencyContact.phone :
                    emergencyContact.phone[i] \in Digits}) >= 10

\* C20: Continue with a field filled in advances only when a phone number
\* with at least 10 digits is present, and otherwise shows an error and
\* stays on the step; Continue with both fields empty, and Skip, advance.
C20_ContinueNeedsPhone ==
  [][/\ (event'.op = "continue" /\ Filled /\ ~PhonePresent) =>
          (step' = step /\ errors'.phone # "")
     /\ (event'.op = "continue" /\ ~Filled) => step' = step + 1
     /\ event'.op = "skip" => step' = step + 1]_vars

\* the number of frames of the shorter and of the longer compared clip
ShorterLen == IF Len(cmpA) <= Len(cmpB) THEN Len(cmpA) ELSE Len(cmpB)
LongerLen == IF Len(cmpA) <= Len(cmpB) THEN Len(cmpB) ELSE Len(cmpA)

\* C21: when the shorter of two fingerprints has fewer than 10 frames their
\* similarity is exactly 0, whatever the frames hold; when both have 10 or
\* more frames it is strictly positive.
C21_LengthGate ==
  cmpPc = "scored" =>
    IF ShorterLen < 10 THEN cmpOut.n = 0
    ELSE cmpOut.n > 0 /\ cmpOut.d > 0

\* nine frames compared with fifteen frames of the same steady sound
C21_Witness ==
  /\ cmpPc = "scored"
  /\ cmpA = Rep(FrameP, 9)
  /\ cmpB = Rep(FrameP, MaxLen)
  /\ cmpOut.n = 0

\* the similarity of the frames at position i of the compared clips, times
\* 100 * SCALE
SimAt(i) == FrameSimilarity(cmpA[i], cmpB[i])

\* the sum of the frame similarities over the aligned frames
SimTotal == SumSeq([i \in 1..ShorterLen |-> SimAt(i)], ShorterLen)

\* the number of aligned frames with similarity strictly above 0.7
GoodCount == Cardinality({i \in 1..ShorterLen : 10 * SimAt(i) > 700 * SCALE})

\* C22: the aligned score is the mean frame similarity when at least 60% of
\* the aligned frames have similarity strictly above 0.7, and exactly half
\* the mean otherwise.
C22_TemporalConsistency ==
  cmpPc = "aligned" =>
    IF 10 * GoodCount >= 6 * ShorterLen
    THEN cmpOut.n * ShorterLen = 2 * SimTotal * cmpOut.d
    ELSE cmpOut.n * ShorterLen = SimTotal * cmpOut.d

\* a clip that equals the other on half of its frames and is a different
\* sound on the other half gets half of its mean frame similarity
C22_Witness ==
  /\ cmpPc = "aligned"
  /\ cmpA = Rep(FrameP, MinFrames)
  /\ cmpB = Mixed(FrameP, FrameQ, MinFrames)
  /\ 2 * GoodCount = ShorterLen
  /\ SimTotal > 0
  /\ cmpOut.n * ShorterLen = SimTotal * cmpOut.d

\* the aligned score of the compared clips is halved for inconsistency
Halved == 10 * GoodCount < 6 * ShorterLen

\* the score cmpOut' of the Compare step is the aligned score times 0.85
\* when the length ratio is below 0.7, and the aligned score otherwise
PenaltyRule ==
  LET h == IF Halved THEN 1 ELSE 2
      p == IF 10 * ShorterLen < 7 * LongerLen THEN 17 ELSE 20
  IN cmpOut'.n * ShorterLen = SimTotal * h * p * cmpOut'.d

\* C23 as stated: the final score is the aligned score times 0.85 when
\* min(len)/max(len) < 0.7 and the aligned score otherwise; every pair with
\* minLen/maxLen = 0.5 scores strictly lower than the same pair truncated
\* to equal length.
C23_LengthPenaltyEveryPair ==
  [][/\ (cmpPc' = "scored" /\ ShorterLen >= 10) => PenaltyRule
     /\ (cmpPc' = "truncated" /\ ShorterLen > 0
         /\ 2 * ShorterLen = LongerLen) => FracGt(cmpOut', cmpOut)]_vars

\* C23: for fingerprints of at least 10 frames each, the final score is the
\* aligned score times 0.85 when min(len)/max(len) < 0.7 and the aligned
\* score otherwise; such a pair with minLen/maxLen = 0.5 scores strictly
\* lower than the same pair truncated to equal length.
C23_LengthPenalty ==
  [][/\ (cmpPc' = "scored" /\ ShorterLen >= 10) => PenaltyRule
     /\ (cmpPc' = "truncated" /\ ShorterLen >= 10
         /\ 2 * ShorterLen = LongerLen) => FracGt(cmpOut', cmpOut)]_vars

\* the same steady sound in 10 and in 20 frames scores 0.85, and 1 after
\* the longer clip is cut to 10 frames
C23_Witness ==
  /\ cmpPc = "truncated"
  /\ cmpA = Rep(FrameP, 10)
  /\ cmpB = Rep(FrameP, 10)
  /\ cmpOut.n = cmpOut.d * ScoreUnit

\* the sum of the weight table, in hundredths
WeightTotal ==
  SumSeq([k \in 1..Len(Features) |-> weights[Features[k]]], Len(Features))

\* C24: the weight table has 17 entries that sum to exactly 1.0; a frame
\* compared with an identical frame has similarity 1, and no frame
\* similarity exceeds 1.
C24_WeightsSumToOne ==
  /\ Len(Features) = 17
  /\ DOMAIN weights = {Features[k] : k \in 1..Len(Features)}
  /\ WeightTotal = 100
  /\ cmpPc = "frame" =>
       /\ cmpOut.n <= cmpOut.d * ScoreUnit
       /\ cmpA = cmpB => cmpOut.n = cmpOut.d * ScoreUnit

\* a frame compared with itself
C24_Witness ==
  /\ cmpPc = "frame"
  /\ cmpA = <<FrameP>>
  /\ cmpB = <<FrameP>>
  /\ cmpOut.n = cmpOut.d * ScoreUnit

\* the number of samples handed to extractFeatures
BufferLen == Len(audioData.channelData)

\* C25: a buffer of L samples yields one frame for each window start at a
\* multiple of 512 for which a full window of 2048 samples fits, in
\* chronological order: floor((L - 2048) / 512) + 1 frames when L >= 2048
\* (one frame when L = 2048) and none when L < 2048.
C25_FrameCount ==
  extracted.ran =>
    /\ Len(extracted.frames) =
         IF BufferLen >= 2048 THEN (BufferLen - 2048) \div 512 + 1 ELSE 0
    /\ \A k \in 1..Len(extracted.frames) :
         /\ extracted.frames[k].start = (k - 1) * 512
         /\ extracted.frames[k].size = 2048

\* the bins whose frequency k / binCount * nyquist lies in
\* [a * nyquist / 4, b * nyquist / 4)
Band(a, b) ==
  {k \in 0..(Len(spectrum) - 1) :
     a * Len(spectrum) <= 4 * k /\ 4 * k < b * Len(spectrum)}

\* the lowest bin of maximum magnitude among the bins of a band
LowestPeak(band) ==
  CHOOSE k \in band :
    /\ \A j \in band : spectrum[j + 1] <= spectrum[k + 1]
    /\ \A j \in band : spectrum[j + 1] = spectrum[k + 1] => k <= j

\* bin k mapped back to a frequency, times the number of bins
BinFreq(k) == k * (audioData.sampleRate \div 2)

\* C26 as stated: peakFreq1 is the frequency of the lowest bin of maximum
\* magnitude in [0, nyquist/4), peakFreq2 that in [nyquist/4, nyquist/2),
\* with bin k mapped to k / binCount * nyquist.
C26_PeaksInQuarterBands ==
  extracted.ran =>
    /\ extracted.frames[1].peakFreq1 = BinFreq(LowestPeak(Band(0, 1)))
    /\ extracted.frames[1].peakFreq2 = BinFreq(LowestPeak(Band(1, 2)))

\* C26: peakFreq1 is the frequency of the lowest bin of maximum magnitude
\* in [0, nyquist/2), peakFreq2 that in [nyquist/2, nyquist), with bin k
\* mapped to k / binCount * nyquist; the two ranges are disjoint.
C26_PeaksInHalfBands ==
  extracted.ran =>
    /\ extracted.frames[1].peakFreq1 = BinFreq(LowestPeak(Band(0, 2)))
    /\ extracted.frames[1].peakFreq2 = BinFreq(LowestPeak(Band(2, 4)))
    /\ Band(0, 2) \cap Band(2, 4) = {}

\* two bins of the lower half tie for the maximum, and the upper half
\* holds a smaller peak
C26_Witness ==
  /\ extracted.ran
  /\ spectrum = TwoPeaks(maxBin \div 8, MaxMag, (3 * maxBin) \div 8, MaxMag)
  /\ extracted.frames[1].peakFreq1 = BinFreq(maxBin \div 8)
  /\ extracted.frames[1].peakFreq2 = BinFreq(maxBin \div 2)

\* the entries of the store that the match request of r scores
Scored(r) ==
  {i \in 1..Len(database) :
     AskedFilter(r) = Null \/ database[i].userId = AskedFilter(r)}

\* C27: whenever Match returns a non-null bestId, bestId is the id of the
\* first element of rankedScores and confidence is that element's score;
\* among the candidates with the highest score, the one inserted into the
\* store earliest is the one named in both views.
C27_ViewsAgree ==
  [][(resp'.op = "match" /\ resp'.status = 200 /\ resp'.match # Null) =>
       LET a == resp'.allScores
       IN /\ Len(a) > 0
          /\ resp'.match = a[1].audioId
          /\ FracEq(resp'.confidence, a[1].score)
          /\ \E i \in Scored(resp') :
               /\ database[i].audioId = resp'.match
               /\ \A j \in Scored(resp') :
                    \/ j >= i
                    \/ FracGt(a[1].score,
                              Score(resp'.req[2], database[j].fingerprint))]_vars

\* the clip is stored under two ids, both are scored and tie at the top;
\* the id inserted first is named
C27_Witness ==
  /\ resp.op = "match"
  /\ resp.status = 200
  /\ Len(database) = 2
  /\ database[1].fingerprint = resp.req[2]
  /\ database[2].fingerprint = resp.req[2]
  /\ Len(resp.allScores) = 2
  /\ FracEq(resp.allScores[1].score, resp.allScores[2].score)
  /\ resp.match = database[1].audioId
  /\ resp.allScores[1].audioId = database[1].audioId

\* the fingerprints file holds an entry for audioId
FileHasId(f, audioId) ==
  \E i \in 1..Len(f.entries) : f.entries[i][1] = audioId

Absent(audioId) == ~HasId(database, audioId) /\ ~FileHasId(file, audioId)

\* C28 as stated: in every interleaving, once Delete(id) has answered
\* success, id stays absent from the in-memory store and from the file
\* until a Register(id) request that arrived after that Delete has
\* completed its write.
C28_DeleteNotUndoneByEarlier ==
  \A audioId \in Ids : graves[audioId].untilLater => Absent(audioId)

\* C28: in every interleaving, once Delete(id) has answered success, id
\* stays absent from the in-memory store and from the file until a
\* Register(id) request, one that arrived after the Delete or one that was
\* in flight when the Delete answered, has done its write.
C28_DeleteUndoneOnlyByRegister ==
  \A audioId \in Ids : graves[audioId].untilAny => Absent(audioId)

\* after the delete of a has answered, a store request for b has written
\* and saved, and a is still gone
C28_Witness ==
  /\ graves["a"].untilAny
  /\ resp.op = "register"
  /\ resp.status = 200
  /\ resp.req[3] = "b"
  /\ FileHasId(file, "b")
  /\ Absent("a")

\* ------------------------------------------------------------------------
\* Temporary WAV files of generateFingerprint.  A path is a stem and an
\* extension; disk[p] is the file at p: nothing, a file a caller put there
\* (by = 0), or the output of the ffmpeg of call s (by = s), whole once that
\* ffmpeg has ended.  calls[s] is call s of generateFingerprint: it is
\* "spawned" while convertToWav has started ffmpeg, "convert" once ffmpeg
\* has opened its output, and "done" when the call has returned or thrown.
\* What follows the await of convertToWav (readFileSync, decode,
\* extractFeatures, unlinkSync) has no timer or I/O wait and is one step.
\* ------------------------------------------------------------------------
MaxCalls == 2

Stems == {"s", "t"}
AudioPaths == [stem : Stems, ext : {"mp3", "m4a", "wav"}]

NoSuchFile == [by |-> -1, whole |-> FALSE]
CallerFile == [by |-> 0, whole |-> TRUE]

\* inputPath.toLowerCase().endsWith('.wav')
IsWav(path) == path.ext = "wav"

\* inputPath.replace(/\.\w+$/, '.wav')
WavOf(path) == [path EXCEPT !.ext = "wav"]

existsSync(d, path) == d[path] # NoSuchFile

unlinkSync(d, path) == [d EXCEPT ![path] = NoSuchFile]

\* let wavPath = null
NoPath == [stem |-> "", ext |-> ""]

NoCall ==
  [pc |-> "idle", audioPath |-> NoPath, wavPath |-> NoPath,
   outcome |-> "none"]

\* the cleanup of generateFingerprint, in the try block and in the catch
\* block alike: wavPath is still null when convertToWav has rejected
Cleanup(d, wavPath, audioPath) ==
  IF wavPath # NoPath /\ wavPath # audioPath /\ existsSync(d, wavPath)
  THEN unlinkSync(d, wavPath)
  ELSE d

InitWav ==
  /\ database = <<>>
  /\ file = NoFile
  /\ clock = 0
  /\ fails = 0
  /\ resp = NoResp
  /\ cmpA = <<>>
  /\ cmpB = <<>>
  /\ cmpOut = Zero
  /\ cmpPc = "off"
  /\ pending = <<>>
  /\ written = {}
  /\ graves = NoGraves
  /\ \E wavs \in SUBSET Stems :
       disk = [p \in AudioPaths |->
                 IF IsWav(p) /\ p.stem \notin wavs
                 THEN NoSuchFile ELSE CallerFile]
  /\ calls = [s \in 1..MaxCalls |-> NoCall]
  /\ NoPlayer
  /\ NoSignal
  /\ NoWizard

\* generateFingerprint(audioPath) is called on a file the route has found
\* to exist; a .wav input is read and decoded on the spot, anything else
\* starts ffmpeg
CallFingerprint(s) ==
  /\ calls[s].pc = "idle"
  /\ s > 1 => calls[s - 1].pc # "idle"
  /\ \E audioPath \in AudioPaths, decoded \in BOOLEAN :
       /\ disk[audioPath] = CallerFile
       /\ IF IsWav(audioPath)
          THEN /\ calls' = [calls EXCEPT ![s] =
                   [pc |-> "done", audioPath |-> audioPath,
                    wavPath |-> audioPath,
                    outcome |-> IF decoded THEN "ok" ELSE "error"]]
               /\ disk' = Cleanup(disk, audioPath, audioPath)
          ELSE /\ decoded
               /\ calls' = [calls EXCEPT ![s] =
                   [NoCall EXCEPT !.pc = "spawned",
                                  !.audioPath = audioPath]]
               /\ disk' = disk
  /\ UNCHANGED <<storeVars, cmpVars, reqVars, dspVars, appVars, playVars>>

\* ffmpeg opens (creates or truncates) its output file, .save(outputPath)
FfmpegOpen(s) ==
  /\ calls[s].pc = "spawned"
  /\ disk' = [disk EXCEPT ![WavOf(calls[s].audioPath)] =
                [by |-> s, whole |-> FALSE]]
  /\ calls' = [calls EXCEPT ![s].pc = "convert"]
  /\ UNCHANGED <<storeVars, cmpVars, reqVars, dspVars, appVars, playVars>>

\* ffmpeg fails, before or after it has opened its output: 'error' rejects
\* convertToWav, the catch block finds wavPath null and rethrows
FfmpegError(s) ==
  /\ calls[s].pc \in {"spawned", "convert"}
  /\ disk' = Cleanup(disk, calls[s].wavPath, calls[s].audioPath)
  /\ calls' = [calls EXCEPT ![s].pc = "done", ![s].outcome = "error"]
  /\ UNCHANGED <<storeVars, cmpVars, reqVars, dspVars, appVars, playVars>>

\* ffmpeg ends: 'end' resolves convertToWav with outputPath; the file is
\* read and decoded, the features are extracted and the file is unlinked.
\* readFileSync throws when the file is gone; decode may throw on a file
\* that is not the whole output of an ffmpeg.
FfmpegEnd(s) ==
  /\ calls[s].pc = "convert"
  /\ LET audioPath == calls[s].audioPath
         wavPath == WavOf(audioPath)
         ended == IF disk[wavPath].by = s
                  THEN [disk EXCEPT ![wavPath].whole = TRUE]
                  ELSE disk
     IN \E decoded \in BOOLEAN :
          /\ ended[wavPath].whole => decoded
          /\ calls' = [calls EXCEPT ![s] =
               [pc |-> "done", audioPath |-> audioPath,
                wavPath |-> wavPath,
                outcome |-> IF existsSync(ended, wavPath) /\ decoded
                            THEN "ok" ELSE "error"]]
          /\ disk' = Cleanup(ended, wavPath, audioPath)
  /\ UNCHANGED <<storeVars, cmpVars, reqVars, dspVars, appVars, playVars>>

NextWav ==
  \E s \in 1..MaxCalls :
    \/ CallFingerprint(s)
    \/ FfmpegOpen(s)
    \/ FfmpegError(s)
    \/ FfmpegEnd(s)

SpecWav == InitWav /\ [][NextWav]_vars

InFlightCall(t) == calls[t].pc \in {"spawned", "convert"}

\* C29: temporary WAV handling is isolated per call.  Whenever a call of
\* generateFingerprint takes a step, (1) if the step ends the call, by
\* success or by error, no output of its ffmpeg is left on disk, (2) the
\* file the caller passed in is neither deleted nor changed, and (3) no
\* temporary file written for another call that is still in flight, and
\* so still has to read it, is deleted or overwritten.
C29_TempWavIsolated ==
  [][\A s \in 1..MaxCalls :
       calls'[s] # calls[s] =>
         /\ calls'[s].pc = "done" =>
              \A p \in AudioPaths : disk'[p].by # s
         /\ disk'[calls'[s].audioPath] = disk[calls'[s].audioPath]
         /\ \A t \in 1..MaxCalls \ {s} :
              LET p == WavOf(calls[t].audioPath)
              IN InFlightCall(t) /\ disk[p].by = t => disk'[p] = disk[p]]_vars

\* ------------------------------------------------------------------------
\* Saved Sounds screen.  sounds is the set of Audio.Sound objects created so
\* far, each with the id of the saved sound it plays, whether it is loaded,
\* whether it is playing and whether the playback-status callback has been
\* set; soundRef is soundRef.current, as the handle [n, id] of such an
\* object.  taps[t] is a call of togglePlaySound on its way through its
\* awaits: pauseAsync, unloadAsync, createAsync, setVolumeAsync.
\* ------------------------------------------------------------------------
MaxTaps == 2
MaxSounds == 3

\* the saved sounds on screen; "c" was saved without an audioUri
SavedSounds == {"a", "b", "c"}
HasAudioUri(id) == id \in {"a", "b"}

NoTap == [pc |-> "idle", id |-> Null, obj |-> NoSound]

Handle(o) == [n |-> o.n, id |-> o.id]
IsLoaded(h) == \E o \in sounds : Handle(o) = h /\ o.isLoaded
LoadedSounds == {o \in sounds : o.isLoaded}

\* a sound object after unloadAsync, after pauseAsync or its end, and after
\* setOnPlaybackStatusUpdate
Unloaded(o) == [o EXCEPT !.isLoaded = FALSE, !.playing = FALSE]
Paused(o) == [o EXCEPT !.playing = FALSE]
WithCallback(o) == [o EXCEPT !.onStatus = TRUE]

InitPlay ==
  /\ database = <<>>
  /\ file = NoFile
  /\ clock = 0
  /\ fails = 0
  /\ resp = NoResp
  /\ cmpA = <<>>
  /\ cmpB = <<>>
  /\ cmpOut = Zero
  /\ cmpPc = "off"
  /\ pending = <<>>
  /\ written = {}
  /\ graves = NoGraves
  /\ NoCalls
  /\ playingId = Null
  /\ soundRef = NoSound
  /\ sounds = {}
  /\ taps = [t \in 1..MaxTaps |-> NoTap]
  /\ NoSignal
  /\ NoWizard

\* togglePlaySound past "Stop any currently playing sound": the alert for
\* a sound without audioUri, or the call of Audio.Sound.createAsync
AfterStop(t, id) ==
  IF HasAudioUri(id)
  THEN [taps EXCEPT ![t] = [pc |-> "create", id |-> id, obj |-> NoSound]]
  ELSE [taps EXCEPT ![t] = NoTap]

\* onPress of the play button of sound id: togglePlaySound up to its first
\* await
TapPlay(t, id) ==
  /\ taps[t].pc = "idle"
  /\ Cardinality(sounds)
       + Cardinality({u \in 1..MaxTaps : taps[u].pc \in {"unload", "create"}})
       < MaxSounds
  /\ IF playingId = id
     THEN taps' = IF soundRef # NoSound
                  THEN [taps EXCEPT ![t] =
                          [pc |-> "pause", id |-> id, obj |-> soundRef]]
                  ELSE taps
     ELSE taps' = IF soundRef # NoSound
                  THEN [taps EXCEPT ![t] =
                          [pc |-> "unload", id |-> id, obj |-> soundRef]]
                  ELSE AfterStop(t, id)
  /\ UNCHANGED <<playingId, soundRef, sounds>>
  /\ UNCHANGED <<storeVars, cmpVars, reqVars, dspVars, appVars, wavVars>>

\* pauseAsync settles: it rejects on a sound that is no longer loaded, and
\* the catch block clears playingId as the try block does
PauseSettles(t) ==
  /\ taps[t].pc = "pause"
  /\ sounds' = {IF Handle(o) = taps[t].obj /\ o.isLoaded
                THEN Paused(o) ELSE o : o \in sounds}
  /\ playingId' = Null
  /\ taps' = [taps EXCEPT ![t] = NoTap]
  /\ UNCHANGED soundRef
  /\ UNCHANGED <<storeVars, cmpVars, reqVars, dspVars, appVars, wavVars>>

\* unloadAsync resolves: soundRef.current = null, then the audioUri test
UnloadSettles(t) ==
  /\ taps[t].pc = "unload"
  /\ sounds' = {IF Handle(o) = taps[t].obj THEN Unloaded(o) ELSE o :
                  o \in sounds}
  /\ soundRef' = NoSound
  /\ taps' = AfterStop(t, taps[t].id)
  /\ UNCHANGED playingId
  /\ UNCHANGED <<storeVars, cmpVars, reqVars, dspVars, appVars, wavVars>>

\* Audio.Sound.createAsync settles: a new sound is loaded and playing and
\* is put in soundRef, or the load fails and the catch block runs
CreateSettles(t) ==
  /\ taps[t].pc = "create"
  /\ \E ok \in BOOLEAN :
       IF ok
       THEN LET newSound == [n |-> Cardinality(sounds) + 1,
                             id |-> taps[t].id, isLoaded |-> TRUE,
                             playing |-> TRUE, onStatus |-> FALSE]
            IN /\ sounds' = sounds \cup {newSound}
               /\ soundRef' = Handle(newSound)
               /\ playingId' = taps[t].id
               /\ taps' = [taps EXCEPT ![t].pc = "volume",
                                       ![t].obj = Handle(newSound)]
       ELSE /\ playingId' = Null
            /\ taps' = [taps EXCEPT ![t] = NoTap]
            /\ UNCHANGED <<soundRef, sounds>>
  /\ UNCHANGED <<storeVars, cmpVars, reqVars, dspVars, appVars, wavVars>>

\* setVolumeAsync settles: the status callback is set, or, on a sound that
\* has been unloaded meanwhile, the catch block runs
VolumeSettles(t) ==
  /\ taps[t].pc = "volume"
  /\ IF IsLoaded(taps[t].obj)
     THEN /\ sounds' = {IF Handle(o) = taps[t].obj
                        THEN WithCallback(o) ELSE o : o \in sounds}
          /\ UNCHANGED playingId
     ELSE /\ playingId' = Null
          /\ UNCHANGED sounds
  /\ taps' = [taps EXCEPT ![t] = NoTap]
  /\ UNCHANGED soundRef
  /\ UNCHANGED <<storeVars, cmpVars, reqVars, dspVars, appVars, wavVars>>

\* a playing sound reaches its end: status.didJustFinish goes to the
\* callback, if one is set
PlaybackFinishes ==
  /\ \E o \in sounds :
       /\ o.isLoaded /\ o.playing
       /\ sounds' = (sounds \ {o}) \cup {Paused(o)}
       /\ playingId' = IF o.onStatus THEN Null ELSE playingId
  /\ UNCHANGED <<soundRef, taps>>
  /\ UNCHANGED <<storeVars, cmpVars, reqVars, dspVars, appVars, wavVars>>

NextPlay ==
  \/ \E t \in 1..MaxTaps, id \in SavedSounds : TapPlay(t, id)
  \/ \E t \in 1..MaxTaps : PauseSettles(t)
  \/ \E t \in 1..MaxTaps : UnloadSettles(t)
  \/ \E t \in 1..MaxTaps : CreateSettles(t)
  \/ \E t \in 1..MaxTaps : VolumeSettles(t)
  \/ PlaybackFinishes

SpecPlay == InitPlay /\ [][NextPlay]_vars

\* no call of togglePlaySound is under way
Settled == \A t \in 1..MaxTaps : taps[t].pc = "idle"

\* C30: after any sequence of play/pause taps, once every tap has run to
\* its end, playingId is non-null only if soundRef holds a loaded sound
\* of that id, and at most one sound is loaded.
C30_PlayingIsLoadedAndSingle ==
  Settled =>
    /\ playingId # Null =>
         /\ soundRef # NoSound
         /\ soundRef.id = playingId
         /\ IsLoaded(soundRef)
    /\ Cardinality(LoadedSounds) <= 1

====
